---- MODULE Spec2Model ----
(***************************************************************************)
(* A model of the Istio MCP server (pkg/mcp, pkg/istio): the server's      *)
(* backend handle s.i, the tool catalog registered on the MCP server, the  *)
(* kubeconfig file watch with its goroutine, the reload callback, the tool *)
(* handlers and the result envelope.                                       *)
(***************************************************************************)
EXTENDS Integers, Sequences, FiniteSets, TLC

\* ------------------------------------------------------------------ bounds
\* Number of kubeconfig file modifications the environment performs.
MaxChanges == 2
\* Backend queries of one invocation that are modelled as separate steps.
MaxQueries == 2
\* Items a listing call returns at most.
MaxItems == 2

\* ------------------------------------------------------------- environment
\* The two kubeconfig files of the model: the conventional default location
\* (~/.kube/config) and some other path a user may pass with --kubeconfig.
Files == {"home", "explicit"}
FileStates == {"missing", "bad", "good"}
\* Configuration.Kubeconfig: "" (resolve from the default location), the
\* path of the default file given explicitly, or another explicit path.
KubeconfigArgs == {"", "home", "explicit"}

Min(a, b) == IF a < b THEN a ELSE b

VARIABLES
    kubeconfig,   \* Server.configuration.Kubeconfig
    fileState,    \* the kubeconfig files on disk
    mainPc,       \* NewServer / serving / Close, as seen by the caller
    s_i,          \* Server.i: the installed backend handle, 0 is nil
    catalog,      \* the tools registered on s.server, and the handle they were built under
    handles,      \* every *istio.Istio constructed so far (index = identity)
    watchers,     \* every fsnotify watcher created so far, with its goroutine
    changes, reloadCalls, logged, dirty,  \* history: modifications, callback calls, logged failures, unserved change
    watchErr,     \* fsnotify.NewWatcher failed at startup ("Failed to create kubeconfig watcher")
    inv,          \* the tool invocation in flight
    call,         \* one handler call in isolation (handler specification)
    env           \* one NewTextResult call in isolation (envelope specification)

lifeVars == <<kubeconfig, fileState, mainPc, s_i, catalog, handles, watchers,
              changes, reloadCalls, logged, dirty, watchErr>>
vars == <<kubeconfig, fileState, mainPc, s_i, catalog, handles, watchers,
          changes, reloadCalls, logged, dirty, watchErr, inv, call, env>>

\* ------------------------------------------------------------ tool catalog
initNetworkingTools ==
    <<"get-virtual-services", "get-destination-rules", "get-gateways", "get-service-entries">>
initSecurityTools ==
    <<"get-authorization-policies", "get-peer-authentications">>
initConfigurationTools ==
    <<"discover-istio-namespaces", "get-envoy-filters", "get-telemetry", "get-istio-config",
      "check-external-dependency-availability", "get-services", "get-pods-by-service">>
initProxyConfigTools ==
    <<"get-proxy-clusters", "get-proxy-listeners", "get-proxy-routes", "get-proxy-endpoints",
      "get-proxy-bootstrap", "get-proxy-config-dump", "get-proxy-status", "get-istio-analyze">>

\* Mutant of GetTools: the proxy tools are left out of the concatenation.
GetTools_WithoutProxyTools ==
    initNetworkingTools \o initSecurityTools \o initConfigurationTools

\* FullProfile.GetTools: slices.Concat of the four groups.
GetTools ==
    initNetworkingTools \o initSecurityTools \o initConfigurationTools \o initProxyConfigTools

ToolNames == {GetTools[k] : k \in 1..Len(GetTools)}

\* The parameters each tool declares (mcp.WithString).
PodTools ==
    {"get-proxy-clusters", "get-proxy-listeners", "get-proxy-routes", "get-proxy-endpoints",
     "get-proxy-bootstrap", "get-proxy-config-dump"}
ParamNames == {"namespace", "pod", "service", "service-name", "external-host"}
ParamsOf(tool) ==
    IF tool = "discover-istio-namespaces" THEN {}
    ELSE IF tool = "check-external-dependency-availability"
        THEN {"service-name", "external-host", "namespace"}
    ELSE IF tool = "get-pods-by-service" THEN {"namespace", "service"}
    ELSE IF tool \in PodTools \cup {"get-proxy-status"} THEN {"namespace", "pod"}
    ELSE {"namespace"}

\* The parameters a tool declares with mcp.Required(), in declaration order.
RequiredOf(tool) ==
    IF tool = "check-external-dependency-availability" THEN <<"service-name", "external-host">>
    ELSE IF tool = "get-pods-by-service" THEN <<"service">>
    ELSE IF tool \in PodTools THEN <<"pod">>
    ELSE <<>>

\* Mutant of ToolAnnotations: get-istio-analyze is built without
\* WithDestructiveHintAnnotation, its destructive hint is not set by the code.
ToolAnnotations_AnalyzeUnannotated(tool) ==
    [ReadOnlyHint |-> "true",
     DestructiveHint |-> IF tool = "get-istio-analyze" THEN "nil" ELSE "false"]

\* The annotations every mcp.NewTool call of the catalog sets:
\* WithReadOnlyHintAnnotation(true), WithDestructiveHintAnnotation(false).
ToolAnnotations(tool) ==
    [ReadOnlyHint |-> "true", DestructiveHint |-> "false"]

\* The mcp.Tool of a catalog entry.
Tool(name) ==
    [Name |-> name, Annotations |-> ToolAnnotations(name),
     Params |-> ParamsOf(name), Required |-> RequiredOf(name)]

\* ----------------------------------------------------------- argument maps
\* A value of the request's map[string]interface{}: absent (nil), a string,
\* or a JSON value of another type (a number).
ArgNil == [t |-> "nil", s |-> ""]
ArgStr(str) == [t |-> "str", s |-> str]
ArgNum == [t |-> "num", s |-> "42"]
StrVals == {"", "v1", "production"}
ArgVals == {ArgNil, ArgNum} \cup {ArgStr(str) : str \in StrVals}

\* The argument maps for a tool: any value under each declared key.
ArgMapsOf(tool) ==
    {[k \in ParamNames |-> IF k \in ParamsOf(tool) THEN f[k] ELSE ArgNil] :
        f \in [ParamsOf(tool) -> ArgVals]}

\* ---------------------------------------------------------------- handlers
\* What a handler does before it touches the backend: it panics on a failed
\* type assertion v.(string), returns an error envelope early, or calls one
\* method of the backend handle with the extracted arguments.
Outcome(kind, msg, method, ns, a1, a2) ==
    [kind |-> kind, msg |-> msg, method |-> method, namespace |-> ns, a1 |-> a1, a2 |-> a2]
Panics == Outcome("panic", "interface conversion: interface {} is not string", "", "", "", "")
EarlyError(msg) == Outcome("error", msg, "", "", "", "")
BackendCall(method, ns, a1, a2) == Outcome("call", "", method, ns, a1, a2)

\* v != nil followed by v.(string): the assertion panics on a non-string.
AssertPanics(v) == v.t = "num"
\* x := dflt; if v := args[key]; v != nil { x = v.(string) }
StringOr(v, dflt) == IF v.t = "nil" THEN dflt ELSE v.s

\* The handlers that take only an optional namespace (default "default").
namespaceOnly(method, args) ==
    IF AssertPanics(args["namespace"]) THEN Panics
    ELSE BackendCall(method, StringOr(args["namespace"], "default"), "", "")

getVirtualServices(args) == namespaceOnly("GetVirtualServices", args)
getDestinationRules(args) == namespaceOnly("GetDestinationRules", args)
getGateways(args) == namespaceOnly("GetGateways", args)
getServiceEntries(args) == namespaceOnly("GetServiceEntries", args)
getAuthorizationPolicies(args) == namespaceOnly("GetAuthorizationPolicies", args)
getPeerAuthentications(args) == namespaceOnly("GetPeerAuthentications", args)
getEnvoyFilters(args) == namespaceOnly("GetEnvoyFilters", args)
getTelemetries(args) == namespaceOnly("GetTelemetries", args)
getIstioConfigSummary(args) == namespaceOnly("GetIstioConfigSummary", args)
getServices(args) == namespaceOnly("GetServices", args)

\* Mutant of checkExternalDependencyAvailability: external-host is extracted
\* and checked before service-name.
checkExternalDependencyAvailability_HostFirst(args) ==
    IF AssertPanics(args["external-host"]) THEN Panics
    ELSE IF StringOr(args["external-host"], "") = "" THEN EarlyError("external-host is required")
    ELSE IF AssertPanics(args["service-name"]) THEN Panics
    ELSE IF StringOr(args["service-name"], "") = "" THEN EarlyError("service-name is required")
    ELSE IF AssertPanics(args["namespace"]) THEN Panics
    ELSE BackendCall("CheckExternalDependencyAvailability",
                     StringOr(args["namespace"], "default"),
                     StringOr(args["service-name"], ""), StringOr(args["external-host"], ""))

checkExternalDependencyAvailability(args) ==
    IF AssertPanics(args["service-name"]) THEN Panics
    ELSE IF StringOr(args["service-name"], "") = "" THEN EarlyError("service-name is required")
    ELSE IF AssertPanics(args["external-host"]) THEN Panics
    ELSE IF StringOr(args["external-host"], "") = "" THEN EarlyError("external-host is required")
    ELSE IF AssertPanics(args["namespace"]) THEN Panics
    ELSE BackendCall("CheckExternalDependencyAvailability",
                     StringOr(args["namespace"], "default"),
                     StringOr(args["service-name"], ""), StringOr(args["external-host"], ""))

discoverIstioNamespaces(args) == BackendCall("DiscoverNamespacesWithSidecars", "", "", "")

\* The six proxy-config handlers: namespace, then pod, then the pod check.
podHandler(method, args) ==
    IF AssertPanics(args["namespace"]) THEN Panics
    ELSE IF AssertPanics(args["pod"]) THEN Panics
    ELSE IF StringOr(args["pod"], "") = "" THEN EarlyError("pod name is required")
    ELSE BackendCall(method, StringOr(args["namespace"], "default"), StringOr(args["pod"], ""), "")

getProxyClusters(args) == podHandler("ProxyConfig.GetClusters", args)
getProxyListeners(args) == podHandler("ProxyConfig.GetListeners", args)
getProxyRoutes(args) == podHandler("ProxyConfig.GetRoutes", args)
getProxyEndpoints(args) == podHandler("ProxyConfig.GetEndpoints", args)
getProxyBootstrap(args) == podHandler("ProxyConfig.GetBootstrap", args)
getProxyConfigDump(args) == podHandler("ProxyConfig.GetConfigDump", args)

getProxyStatus(args) ==
    IF AssertPanics(args["namespace"]) THEN Panics
    ELSE IF AssertPanics(args["pod"]) THEN Panics
    ELSE IF StringOr(args["pod"], "") # "" /\ StringOr(args["namespace"], "") # ""
        THEN BackendCall("ProxyConfig.GetProxyStatusForPod",
                         StringOr(args["namespace"], ""), StringOr(args["pod"], ""), "")
    ELSE BackendCall("ProxyConfig.GetProxyStatus", "", "", "")

getIstioAnalyze(args) ==
    IF AssertPanics(args["namespace"]) THEN Panics
    ELSE BackendCall("ProxyConfig.GetAnalyze", StringOr(args["namespace"], ""), "", "")

getPodsByService(args) ==
    IF AssertPanics(args["namespace"]) THEN Panics
    ELSE IF AssertPanics(args["service"]) THEN Panics
    ELSE IF StringOr(args["service"], "") = ""
        THEN EarlyError("service name is required - use 'get-services' first to discover available services")
    ELSE BackendCall("GetPodsByService", StringOr(args["namespace"], "default"),
                     StringOr(args["service"], ""), "")

\* The Handler field each ServerTool of the catalog is bound to.
Handler(tool, args) ==
    CASE tool = "get-virtual-services" -> getVirtualServices(args)
      [] tool = "get-destination-rules" -> getDestinationRules(args)
      [] tool = "get-gateways" -> getGateways(args)
      [] tool = "get-service-entries" -> getServiceEntries(args)
      [] tool = "get-authorization-policies" -> getAuthorizationPolicies(args)
      [] tool = "get-peer-authentications" -> getPeerAuthentications(args)
      [] tool = "discover-istio-namespaces" -> discoverIstioNamespaces(args)
      [] tool = "get-envoy-filters" -> getEnvoyFilters(args)
      [] tool = "get-telemetry" -> getTelemetries(args)
      [] tool = "get-istio-config" -> getIstioConfigSummary(args)
      [] tool = "check-external-dependency-availability" -> checkExternalDependencyAvailability(args)
      [] tool = "get-services" -> getServices(args)
      [] tool = "get-pods-by-service" -> getPodsByService(args)
      [] tool = "get-proxy-clusters" -> getProxyClusters(args)
      [] tool = "get-proxy-listeners" -> getProxyListeners(args)
      [] tool = "get-proxy-routes" -> getProxyRoutes(args)
      [] tool = "get-proxy-endpoints" -> getProxyEndpoints(args)
      [] tool = "get-proxy-bootstrap" -> getProxyBootstrap(args)
      [] tool = "get-proxy-config-dump" -> getProxyConfigDump(args)
      [] tool = "get-proxy-status" -> getProxyStatus(args)
      [] tool = "get-istio-analyze" -> getIstioAnalyze(args)

\* The largest number of backend queries (listing calls or istioctl runs) a
\* backend method issues through its receiver.
BackendQueries(method) ==
    CASE method = "GetIstioConfigSummary" -> 8
      [] method = "CheckExternalDependencyAvailability" -> 5
      [] method = "GetPodsByService" -> 2
      [] OTHER -> 1

\* ------------------------------------------------------------ the envelope
\* error values: NoError is Go's nil error, anything else carries a message.
NoError == [isNil |-> TRUE, msg |-> ""]
ErrorOf(msg) == [isNil |-> FALSE, msg |-> msg]

TextContent(text) == [Type |-> "text", Text |-> text]

\* Mutant of NewTextResult: on an error the content is kept in front of the
\* error's message.
NewTextResult_KeepsContent(content, err) ==
    IF ~err.isNil
        THEN [IsError |-> TRUE, Content |-> <<TextContent(content), TextContent(err.msg)>>]
        ELSE [IsError |-> FALSE, Content |-> <<TextContent(content)>>]

\* NewTextResult(content, err)
NewTextResult(content, err) ==
    IF ~err.isNil
        THEN [IsError |-> TRUE, Content |-> <<TextContent(err.msg)>>]
        ELSE [IsError |-> FALSE, Content |-> <<TextContent(content)>>]

\* ------------------------------------------------- the istioctl subprocess
\* ProxyConfigClient.timeout, in seconds.
timeout == 30

\* strings.Contains(s, t)
Contains(s, t) ==
    \E k \in 1..(Len(s) - Len(t) + 1) : SubSeq(s, k, k + Len(t) - 1) = t

\* Mutant of ProxyTarget: the namespace is put in front of the pod name.
ProxyTarget_NamespaceFirst(podName, namespace) == namespace \o "." \o podName

\* fmt.Sprintf("%s.%s", podName, namespace)
ProxyTarget(podName, namespace) == podName \o "." \o namespace

\* The proxy-config subcommand of each of the six pod methods.
ProxyConfigSubcommand(method) ==
    CASE method = "ProxyConfig.GetClusters" -> "cluster"
      [] method = "ProxyConfig.GetListeners" -> "listener"
      [] method = "ProxyConfig.GetRoutes" -> "route"
      [] method = "ProxyConfig.GetEndpoints" -> "endpoint"
      [] method = "ProxyConfig.GetBootstrap" -> "bootstrap"
      [] method = "ProxyConfig.GetConfigDump" -> "all"

ProxyConfigMethods ==
    {"ProxyConfig.GetClusters", "ProxyConfig.GetListeners", "ProxyConfig.GetRoutes",
     "ProxyConfig.GetEndpoints", "ProxyConfig.GetBootstrap", "ProxyConfig.GetConfigDump"}
ProxyMethods ==
    ProxyConfigMethods \cup
        {"ProxyConfig.GetProxyStatus", "ProxyConfig.GetProxyStatusForPod", "ProxyConfig.GetAnalyze"}

\* The arguments each ProxyConfigClient method hands to execIstioctl.
IstioctlArgs(method, namespace, podName) ==
    IF method \in ProxyConfigMethods
        THEN <<"proxy-config", ProxyConfigSubcommand(method), ProxyTarget(podName, namespace),
               "-o", "json">>
    ELSE IF method = "ProxyConfig.GetProxyStatus" THEN <<"proxy-status">>
    ELSE IF method = "ProxyConfig.GetProxyStatusForPod"
        THEN <<"proxy-status", ProxyTarget(podName, namespace)>>
    ELSE IF namespace # "" THEN <<"analyze", "-n", namespace>>
    ELSE <<"analyze">>

\* One run of the istioctl subprocess: the second at which it would exit by
\* itself, its exit code, and the combined output it has written by the time
\* it exits or is killed.
Elapsed == {1, timeout + 1}
ExitCodes == {0, 1}
Outputs == {"", "SYNCED", "Error: not found"}
Runs == [elapsed : Elapsed, exit : ExitCodes, output : Outputs]
NoRun == [elapsed |-> 0, exit |-> 0, output |-> ""]

\* The context's deadline passes before the process exits: it is killed.
TimedOut(run) == run.elapsed > timeout

\* The error of cmd.CombinedOutput(): nil, the kill, or the exit status.
RunError(run) ==
    IF TimedOut(run) THEN ErrorOf("signal: killed")
    ELSE IF run.exit # 0 THEN ErrorOf("exit status " \o ToString(run.exit))
    ELSE NoError

\* execIstioctl: the command line built for the client's kubeconfig.
CmdArgs(k, args) == (IF k # "" THEN <<"--kubeconfig", k>> ELSE <<>>) \o args

\* execIstioctl: what it returns for a run of the subprocess.
execIstioctl(run) ==
    IF ~RunError(run).isNil
        THEN [content |-> "",
              err |-> ErrorOf("istioctl command failed: " \o RunError(run).msg
                              \o ", output: " \o run.output)]
        ELSE [content |-> run.output, err |-> NoError]

\* ------------------------------------------------------ resource listings
\* The eight methods that list one kind of Istio resource in a namespace.
ListingMethods ==
    {"GetVirtualServices", "GetDestinationRules", "GetGateways", "GetServiceEntries",
     "GetAuthorizationPolicies", "GetPeerAuthentications", "GetEnvoyFilters", "GetTelemetries"}

\* The kind as each method's header line words it.
ListingKind(method) ==
    CASE method = "GetVirtualServices" -> "Virtual Services"
      [] method = "GetDestinationRules" -> "Destination Rules"
      [] method = "GetGateways" -> "Gateways"
      [] method = "GetServiceEntries" -> "Service Entries"
      [] method = "GetAuthorizationPolicies" -> "Authorization Policies"
      [] method = "GetPeerAuthentications" -> "Peer Authentications"
      [] method = "GetEnvoyFilters" -> "Envoy Filters"
      [] method = "GetTelemetries" -> "Telemetry configurations"

\* The prefix each method wraps a List error in.
ListingFailure(method) ==
    CASE method = "GetVirtualServices" -> "failed to list virtual services: "
      [] method = "GetDestinationRules" -> "failed to list destination rules: "
      [] method = "GetGateways" -> "failed to list gateways: "
      [] method = "GetServiceEntries" -> "failed to list service entries: "
      [] method = "GetAuthorizationPolicies" -> "failed to list authorization policies: "
      [] method = "GetPeerAuthentications" -> "failed to list peer authentications: "
      [] method = "GetEnvoyFilters" -> "failed to list envoy filters: "
      [] method = "GetTelemetries" -> "failed to list telemetries: "

\* Items a List call can return. One record shape stands for the eight
\* resource types; each method reads the fields its type has. A nil slice or
\* map is the empty sequence, a nil Mtls is the empty string.
ItemBare ==
    [Name |-> "a", Hosts |-> <<>>, Gateways |-> <<>>, Http |-> 0, Tcp |-> 0, Tls |-> 0,
     Host |-> "", Selector |-> <<>>, Location |-> "MESH_EXTERNAL", Action |-> "ALLOW",
     Mtls |-> ""]
ItemV1 ==
    [Name |-> "c", Hosts |-> <<"v1">>, Gateways |-> <<>>, Http |-> 0, Tcp |-> 0, Tls |-> 0,
     Host |-> "v1", Selector |-> <<>>, Location |-> "MESH_EXTERNAL", Action |-> "DENY",
     Mtls |-> ""]
ItemFull ==
    [Name |-> "b", Hosts |-> <<"x.com", "y.com">>, Gateways |-> <<"gw">>,
     Http |-> 1, Tcp |-> 0, Tls |-> 2,
     Host |-> "x.com", Selector |-> <<<<"app", "web">>>>, Location |-> "MESH_INTERNAL",
     Action |-> "DENY", Mtls |-> "STRICT"]
Items == {ItemBare, ItemFull}

RECURSIVE JoinWords(_)
\* The elements of a []string as %v separates them.
JoinWords(ws) ==
    IF ws = <<>> THEN ""
    ELSE IF Len(ws) = 1 THEN ws[1]
    ELSE ws[1] \o " " \o JoinWords(Tail(ws))

\* fmt %v of a []string and of a map[string]string (keys in sorted order).
FormatSlice(ws) == "[" \o JoinWords(ws) \o "]"
FormatMap(kvs) == "map[" \o JoinWords([k \in DOMAIN kvs |-> kvs[k][1] \o ":" \o kvs[k][2]]) \o "]"

\* The lines each method appends for one item.
ItemLines(method, it) ==
    LET name == "- " \o it.Name \o "\n"
        selector == IF it.Selector # <<>>
                        THEN "  Selector: " \o FormatMap(it.Selector) \o "\n" ELSE ""
        hosts == IF it.Hosts # <<>> THEN "  Hosts: " \o FormatSlice(it.Hosts) \o "\n" ELSE ""
    IN  CASE method = "GetVirtualServices" ->
                name \o hosts
                \o (IF it.Gateways # <<>>
                        THEN "  Gateways: " \o FormatSlice(it.Gateways) \o "\n" ELSE "")
                \o (IF it.Http > 0 THEN "  HTTP Routes: " \o ToString(it.Http) \o "\n" ELSE "")
                \o (IF it.Tcp > 0 THEN "  TCP Routes: " \o ToString(it.Tcp) \o "\n" ELSE "")
                \o (IF it.Tls > 0 THEN "  TLS Routes: " \o ToString(it.Tls) \o "\n" ELSE "")
                \o "\n"
          [] method = "GetDestinationRules" ->
                name \o (IF it.Host # "" THEN "  Host: " \o it.Host \o "\n" ELSE "")
          [] method = "GetGateways" -> name \o selector
          [] method = "GetServiceEntries" ->
                name \o hosts
                \o (IF it.Location # "" THEN "  Location: " \o it.Location \o "\n" ELSE "")
          [] method = "GetAuthorizationPolicies" ->
                name \o selector
                \o (IF it.Action # "" THEN "  Action: " \o it.Action \o "\n" ELSE "")
          [] method = "GetPeerAuthentications" ->
                name \o selector
                \o (IF it.Mtls # "" THEN "  mTLS Mode: " \o it.Mtls \o "\n" ELSE "")
          [] method = "GetEnvoyFilters" ->
                name \o (IF it.Selector # <<>>
                            THEN "  Workload Selector: " \o FormatMap(it.Selector) \o "\n" ELSE "")
          [] method = "GetTelemetries" -> name \o selector

\* Mutant of FormatItems: the loop stops after the first item.
FormatItems_FirstOnly(method, items) ==
    IF items = <<>> THEN "" ELSE ItemLines(method, Head(items))

\* Mutant of FormatItems: the items are sorted by name, descending, before
\* they are formatted (for the items of the model: ItemFull before ItemBare).
FormatItems_SortedByName(method, items) ==
    LET RECURSIVE Pick(_, _)
        Pick(its, it) ==
            IF its = <<>> THEN ""
            ELSE (IF Head(its) = it THEN ItemLines(method, it) ELSE "") \o Pick(Tail(its), it)
    IN  Pick(items, ItemFull) \o Pick(items, ItemBare)

RECURSIVE FormatItems(_, _)
\* for _, x := range list.Items { result += ... }
FormatItems(method, items) ==
    IF items = <<>> THEN ""
    ELSE ItemLines(method, Head(items)) \o FormatItems(method, Tail(items))

\* Mutant of ListingHeader: the header line is left out when the list is empty.
ListingHeader_OmittedWhenEmpty(method, namespace, n) ==
    IF n = 0 THEN "No " \o ListingKind(method) \o " found\n"
    ELSE "Found " \o ToString(n) \o " " \o ListingKind(method)
            \o " in namespace '" \o namespace \o "':\n"

\* fmt.Sprintf("Found %d <Kind> in namespace '%s':\n", len(list.Items), namespace)
ListingHeader(method, namespace, n) ==
    "Found " \o ToString(n) \o " " \o ListingKind(method)
        \o " in namespace '" \o namespace \o "':\n"

\* The error of a call whose context the caller cancelled, and of a call the
\* API server could not be reached for.
Canceled == ErrorOf("context canceled")
Refused == ErrorOf("connection refused")

\* What a List call gives back: items and a nil error, or an error.
ListResults ==
    {[items |-> its, err |-> NoError] : its \in UNION {[1..n -> Items] : n \in 0..MaxItems}}
        \cup {[items |-> <<>>, err |-> Refused], [items |-> <<>>, err |-> Canceled]}

\* One of the eight listing methods, given what its List call returned.
GetListing(method, namespace, l) ==
    IF ~l.err.isNil
        THEN [content |-> "", err |-> ErrorOf(ListingFailure(method) \o l.err.msg)]
        ELSE [content |-> ListingHeader(method, namespace, Len(l.items))
                            \o FormatItems(method, l.items),
              err |-> NoError]

\* ------------------------------------------------------ aggregate methods
\* What each List call of an aggregate method gives back: few items, or an error.
AggregateResults ==
    {[items |-> <<>>, err |-> NoError], [items |-> <<ItemV1, ItemBare>>, err |-> NoError],
     [items |-> <<>>, err |-> Refused], [items |-> <<>>, err |-> Canceled]}

\* A cancelled context stays cancelled: every call after a cancelled one fails
\* the same way.
StickyCancel(rs) ==
    \A j, k \in DOMAIN rs : j < k /\ rs[j].err = Canceled => rs[k].err = Canceled

\* The label of each count line of the summary, in the order of its List calls.
SummaryLabels ==
    <<"Virtual Services", "Destination Rules", "Gateways", "Service Entries",
      "Authorization Policies", "Peer Authentications", "Envoy Filters",
      "Telemetry Configurations">>

\* The results of the eight List calls of one GetIstioConfigSummary.
SummaryRuns == {rs \in [DOMAIN SummaryLabels -> AggregateResults] : StickyCancel(rs)}

RECURSIVE SummaryLines(_, _)
\* if err != nil { klog.Warningf(...) } else { result += "<label>: <n>\n" }
SummaryLines(rs, k) ==
    IF k > Len(rs) THEN ""
    ELSE (IF rs[k].err.isNil
            THEN SummaryLabels[k] \o ": " \o ToString(Len(rs[k].items)) \o "\n"
            ELSE "")
         \o SummaryLines(rs, k + 1)

\* Mutant of GetIstioConfigSummary: a failed List call is returned as the error.
GetIstioConfigSummary_FailsFast(namespace, rs) ==
    IF \E k \in DOMAIN rs : ~rs[k].err.isNil
        THEN [content |-> "", err |-> ErrorOf("failed to list resources")]
        ELSE [content |-> "Istio Configuration Summary for namespace '" \o namespace \o "':\n\n"
                            \o SummaryLines(rs, 1),
              err |-> NoError]

\* Istio.GetIstioConfigSummary, given what its eight List calls return.
GetIstioConfigSummary(namespace, rs) ==
    [content |-> "Istio Configuration Summary for namespace '" \o namespace \o "':\n\n"
                    \o SummaryLines(rs, 1),
     err |-> NoError]

\* The five List calls of CheckExternalDependencyAvailability, in the order it
\* issues them: Service Entries of the namespace, Service Entries of
\* istio-system (only when the first found no match), Virtual Services,
\* Destination Rules, Authorization Policies.
CheckListings ==
    <<"service entries", "service entries (istio-system)", "virtual services",
      "destination rules", "authorization policies">>

\* The results of the five List calls of one CheckExternalDependencyAvailability.
CheckRuns == {rs \in [DOMAIN CheckListings -> AggregateResults] : StickyCancel(rs)}

\* for _, x := range items { if <test> { found = true; details = ...; break } }:
\* the first of the indices of the items passing the test, 0 when there is none.
FirstIndex(hits) ==
    IF hits = {} THEN 0 ELSE CHOOSE k \in hits : \A j \in hits : k <= j

\* Istio.CheckExternalDependencyAvailability, given what its List calls return.
\* issued is the set of List calls it made before it returned.
CheckExternalDependencyAvailability(serviceName, externalHost, namespace, rs) ==
    LET HasHost(it) == \E h \in DOMAIN it.Hosts : it.Hosts[h] = externalHost
        IsHost(it) == it.Host = externalHost
        Allows(it) == it.Action = "ALLOW"
        Hits(items, Test(_)) == {k \in DOMAIN items : Test(items[k])}
        se == FirstIndex(Hits(rs[1].items, HasHost))
        fallback == se = 0
        seSys == IF fallback /\ rs[2].err.isNil THEN FirstIndex(Hits(rs[2].items, HasHost)) ELSE 0
        serviceEntryFound == se # 0 \/ seSys # 0
        vs == FirstIndex(Hits(rs[3].items, HasHost))
        dr == FirstIndex(Hits(rs[4].items, IsHost))
        ap == FirstIndex(Hits(rs[5].items, Allows))
        upTo(k) == {j \in 1..k : j # 2 \/ fallback}
        serviceEntryDetails ==
            IF se # 0
                THEN "[OK] Service Entry: '" \o rs[1].items[se].Name
                        \o "' found in namespace '" \o namespace \o "'"
            ELSE IF seSys # 0
                THEN "[OK] Service Entry: '" \o rs[2].items[seSys].Name
                        \o "' found in namespace 'istio-system' (global)"
            ELSE "[MISSING] Service Entry: Not found for external host"
        virtualServiceDetails ==
            IF vs # 0
                THEN "[OK] Virtual Service: '" \o rs[3].items[vs].Name
                        \o "' found with routing rules"
                ELSE "[WARNING] Virtual Service: No specific routing rules found (may use default routing)"
        destinationRuleDetails ==
            IF dr # 0
                THEN "[OK] Destination Rule: '" \o rs[4].items[dr].Name
                        \o "' found with traffic policies"
                ELSE "[WARNING] Destination Rule: No specific traffic policies found (may use default policies)"
        authorizationPolicyDetails ==
            IF ap # 0
                THEN "[OK] Authorization Policy: '" \o rs[5].items[ap].Name
                        \o "' found (ALLOW action)"
                ELSE "[WARNING] Authorization Policy: No explicit ALLOW policies found (may use default allow)"
        assessment ==
            IF serviceEntryFound
                THEN "[RESULT] External dependency '" \o externalHost
                        \o "' is available for service '" \o serviceName \o "'\n"
                        \o "   The Service Entry exists, which means the external service is registered in the mesh.\n"
                        \o (IF vs # 0 \/ dr # 0
                                THEN "   Additional routing and traffic policies are configured.\n"
                                ELSE "")
                ELSE "[RESULT] External dependency '" \o externalHost
                        \o "' is NOT available for service '" \o serviceName \o "'\n"
                        \o "   You need to create a Service Entry for '" \o externalHost
                        \o "' before the service can access it.\n"
                        \o "   Consider creating it in namespace '" \o namespace
                        \o "' or globally in 'istio-system'.\n"
        Failed(k) == [content |-> "",
                      err |-> ErrorOf("failed to list " \o CheckListings[k]
                                        \o ": " \o rs[k].err.msg),
                      issued |-> upTo(k)]
    IN  IF ~rs[1].err.isNil THEN [Failed(1) EXCEPT !.issued = {1}]
        ELSE IF ~rs[3].err.isNil THEN Failed(3)
        ELSE IF ~rs[4].err.isNil THEN Failed(4)
        ELSE IF ~rs[5].err.isNil THEN Failed(5)
        ELSE [content |-> "External Dependency Check for service '" \o serviceName
                            \o "' -> '" \o externalHost \o "' in namespace '" \o namespace
                            \o "':\n\n"
                            \o serviceEntryDetails \o "\n"
                            \o virtualServiceDetails \o "\n"
                            \o destinationRuleDetails \o "\n"
                            \o authorizationPolicyDetails \o "\n\n"
                            \o assessment,
              err |-> NoError,
              issued |-> upTo(5)]

RECURSIVE Spaces(_)
Spaces(n) == IF n <= 0 THEN "" ELSE " " \o Spaces(n - 1)

\* fmt's %-<w>s and %<w>s / %<w>d: pad on the right, pad on the left; a text
\* already w wide or wider is left as it is.
PadRight(text, w) == text \o Spaces(w - Len(text))
PadLeft(text, w) == Spaces(w - Len(text)) \o text

RECURSIVE Join(_, _)
\* strings.Join(parts, sep)
Join(parts, sep) ==
    IF parts = <<>> THEN ""
    ELSE IF Len(parts) = 1 THEN parts[1]
    ELSE parts[1] \o sep \o Join(Tail(parts), sep)

\* The icons of the pod report. The source's literals are pictographs; the
\* model writes each as a bracketed word.
Icon ==
    [notReady |-> "[x]", ready |-> "[ok]", noMesh |-> "[-]", mesh |-> "[mesh]",
     warning |-> "[!]", pending |-> "[..]", hint |-> "[i]"]

\* Pods a List call can return.
PodWeb ==
    [Name |-> "web-1", Namespace |-> "production", Phase |-> "Running", Ready |-> TRUE,
     Containers |-> <<"app", "istio-proxy">>, PodIP |-> "10.0.0.1", NodeName |-> "n1"]
PodJob ==
    [Name |-> "job-1", Namespace |-> "production", Phase |-> "Pending", Ready |-> FALSE,
     Containers |-> <<"job">>, PodIP |-> "", NodeName |-> ""]
ServicePods == {PodWeb, PodJob}

\* service.Spec.Selector: a nil map, or a map given as its set of key/value pairs.
NilSelector == [isNil |-> TRUE, labels |-> {}]
SelectorOf(labels) == [isNil |-> FALSE, labels |-> labels]
Selectors ==
    {NilSelector, SelectorOf({<<"app", "web">>}),
     SelectorOf({<<"app", "web">>, <<"tier", "v1">>})}

\* The orders in which a range over a map can visit its entries: Go leaves the
\* order unspecified and varies it from one loop to the next.
RangeOrders(labels) ==
    {order \in [1..Cardinality(labels) -> labels] :
        \A j, k \in DOMAIN order : order[j] = order[k] => j = k}

\* What Endpoints(namespace).Get returns: an error, or the subsets, each a list
\* of addresses (pod is the name of a TargetRef of kind Pod, "" without one).
EndpointsResults ==
    {[subsets |-> <<>>, err |-> Refused],
     [subsets |-> <<>>, err |-> NoError],
     [subsets |-> <<<<[ip |-> "10.0.0.1", pod |-> "web-1"], [ip |-> "10.0.0.9", pod |-> ""]>>>>,
      err |-> NoError]}

\* What Pods(namespace).List returns.
PodListResults ==
    {[items |-> its, err |-> NoError] : its \in UNION {[1..n -> ServicePods] : n \in 0..MaxItems}}
        \cup {[items |-> <<>>, err |-> Refused], [items |-> <<>>, err |-> Canceled]}

\* The cluster as GetPodsByService sees it: the result of Services.Get, of
\* Endpoints.Get and of Pods.List for the service's selector.
ServiceBackends ==
    [svcErr : {NoError, Refused}, selector : Selectors,
     endpoints : EndpointsResults, pods : PodListResults]

HasIstio(pod) == \E c \in DOMAIN pod.Containers : pod.Containers[c] = "istio-proxy"
IsRunning(pod) == pod.Phase = "Running"
IsNotRunning(pod) == pod.Phase # "Running"
IsAppContainer(name) == name # "istio-proxy"

\* isPodReady(pod)
isPodReady(pod) == pod.Ready

RECURSIVE EndpointLines(_)
\* The address lines of one subset.
EndpointLines(addrs) ==
    IF addrs = <<>> THEN ""
    ELSE (IF Head(addrs).pod # ""
            THEN "   - Pod: " \o Head(addrs).pod \o " (IP: " \o Head(addrs).ip \o ")\n"
            ELSE "   - IP: " \o Head(addrs).ip \o "\n")
         \o EndpointLines(Tail(addrs))

RECURSIVE SubsetLines(_)
SubsetLines(subsets) ==
    IF subsets = <<>> THEN ""
    ELSE EndpointLines(Head(subsets)) \o SubsetLines(Tail(subsets))

RECURSIVE RunningPodLines(_)
\* The block of each running pod.
RunningPodLines(pods) ==
    IF pods = <<>> THEN ""
    ELSE LET pod == Head(pods)
         IN  "   " \o (IF isPodReady(pod) THEN Icon.ready ELSE Icon.notReady) \o " "
                 \o (IF HasIstio(pod) THEN Icon.mesh ELSE Icon.noMesh) \o " " \o pod.Name \o "\n"
             \o "      IP: " \o PadRight(pod.PodIP, 15) \o " Node: " \o pod.NodeName \o "\n"
             \o "      Containers: " \o Join(SelectSeq(pod.Containers, IsAppContainer), ", ") \o "\n"
             \o (IF HasIstio(pod)
                    THEN "      " \o Icon.mesh \o "  Istio mesh: ENABLED\n"
                    ELSE "      " \o Icon.warning \o "  Istio mesh: NOT ENABLED\n")
             \o "\n"
             \o RunningPodLines(Tail(pods))

RECURSIVE NonRunningPodLines(_)
NonRunningPodLines(pods) ==
    IF pods = <<>> THEN ""
    ELSE "   " \o Icon.notReady \o " " \o Head(pods).Name
            \o " (Status: " \o Head(pods).Phase \o ")\n"
         \o NonRunningPodLines(Tail(pods))

\* for key, value := range service.Spec.Selector { selectorParts = append(...) }
\* labelSelector := strings.Join(selectorParts, ",")
LabelSelector(order) ==
    Join([k \in DOMAIN order |-> order[k][1] \o "=" \o order[k][2]], ",")

\* Istio.GetPodsByService, given the cluster and the order in which the range
\* over the selector visits its entries.
GetPodsByService(namespace, serviceName, b, order) ==
    LET header == "Pods backing service '" \o serviceName \o "' in namespace '"
                    \o namespace \o "':\n\n"
        labelSelector == LabelSelector(order)
        runningPods == SelectSeq(b.pods.items, IsRunning)
        nonRunningPods == SelectSeq(b.pods.items, IsNotRunning)
    IN  IF ~b.svcErr.isNil
            THEN [content |-> "",
                  err |-> ErrorOf("failed to get service " \o serviceName \o ": " \o b.svcErr.msg)]
        ELSE IF b.selector.isNil
            THEN [content |-> header
                    \o "  Service '" \o serviceName \o "' has no selector - this is likely:\n"
                    \o "   - A headless service with manual endpoints\n"
                    \o "   - An external service (ExternalName type)\n"
                    \o "   - A service with manually configured endpoints\n\n"
                    \o (IF b.endpoints.err.isNil /\ Len(b.endpoints.subsets) > 0
                            THEN " Configured endpoints:\n" \o SubsetLines(b.endpoints.subsets)
                            ELSE ""),
                  err |-> NoError]
        ELSE IF ~b.pods.err.isNil
            THEN [content |-> "",
                  err |-> ErrorOf("failed to list pods for service " \o serviceName \o ": "
                                    \o b.pods.err.msg)]
        ELSE [content |-> header
                \o " Service selector: " \o labelSelector \o "\n"
                \o " Total pods found: " \o ToString(Len(b.pods.items)) \o " ("
                \o ToString(Len(runningPods)) \o " running, "
                \o ToString(Len(nonRunningPods)) \o " not running)\n\n"
                \o (IF Len(runningPods) > 0
                        THEN " Running pods (" \o ToString(Len(runningPods))
                                \o ") - Ready for proxy commands:\n"
                                \o RunningPodLines(runningPods)
                        ELSE "")
                \o (IF Len(nonRunningPods) > 0
                        THEN Icon.pending \o " Non-running pods (" \o ToString(Len(nonRunningPods))
                                \o "):\n" \o NonRunningPodLines(nonRunningPods) \o "\n"
                        ELSE "")
                \o (IF Len(runningPods) = 0
                        THEN Icon.warning \o "  No running pods found backing this service!\n"
                                \o Icon.hint \o " This could mean:\n"
                                \o "   - The deployment is scaled to 0 replicas\n"
                                \o "   - Pods are failing to start\n"
                                \o "   - Label selector mismatch between service and pods\n\n"
                        ELSE Icon.hint \o " Next steps - Use these pod names with proxy commands:\n"
                                \o "   get-proxy-status --namespace " \o namespace \o " --pod "
                                \o runningPods[1].Name \o "\n"
                                \o "   get-proxy-clusters --namespace " \o namespace \o " --pod "
                                \o runningPods[1].Name \o "\n"
                                \o "   get-proxy-listeners --namespace " \o namespace \o " --pod "
                                \o runningPods[1].Name \o "\n"
                                \o "   get-proxy-routes --namespace " \o namespace \o " --pod "
                                \o runningPods[1].Name \o "\n"),
              err |-> NoError]

\* The namespaces of the pods of the model, in the order Go's < puts their names.
NamespaceOrder == <<"alpha", "beta", "delta", "gamma", "kappa", "production">>
NamespaceIndex(ns) == CHOOSE k \in DOMAIN NamespaceOrder : NamespaceOrder[k] = ns

\* a < b on namespace names
NameLess(a, b) == NamespaceIndex(a) < NamespaceIndex(b)

SidecarPod(name, ns, phase, containers) ==
    [Name |-> name, Namespace |-> ns, Phase |-> phase, Ready |-> TRUE,
     Containers |-> containers, PodIP |-> "10.0.0.2", NodeName |-> "n1"]

\* Pods the cluster-wide List call can return: one with a sidecar in each
\* namespace and a second in beta and in gamma, a pod that is not running, a
\* pod without a sidecar and a pod without containers.
ClusterPods ==
    <<SidecarPod("a1", "alpha", "Running", <<"app", "istio-proxy">>),
      SidecarPod("b1", "beta", "Running", <<"istio-proxy", "app">>),
      SidecarPod("b2", "beta", "Running", <<"app", "istio-proxy">>),
      SidecarPod("d1", "delta", "Running", <<"app", "istio-proxy">>),
      SidecarPod("g1", "gamma", "Running", <<"app", "istio-proxy">>),
      SidecarPod("g2", "gamma", "Running", <<"app", "sidecar", "istio-proxy">>),
      SidecarPod("k1", "kappa", "Running", <<"istio-proxy">>),
      SidecarPod("p1", "production", "Running", <<"app", "istio-proxy">>),
      SidecarPod("a2", "alpha", "Pending", <<"app", "istio-proxy">>),
      SidecarPod("d2", "delta", "Running", <<"app">>),
      SidecarPod("k2", "kappa", "Running", <<>>)>>

RECURSIVE Ascending(_)
\* The pods with the given indices, in index order.
Ascending(S) ==
    IF S = {} THEN <<>>
    ELSE LET k == CHOOSE x \in S : \A y \in S : x <= y
         IN  <<ClusterPods[k]>> \o Ascending(S \ {k})

Reverse(seq) == [k \in DOMAIN seq |-> seq[Len(seq) + 1 - k]]

\* What Pods("").List returns: any of the pods, in one order or the reverse,
\* or an error.
ClusterListResults ==
    {[items |-> Ascending(S), err |-> NoError] : S \in SUBSET DOMAIN ClusterPods}
        \cup {[items |-> Reverse(Ascending(S)), err |-> NoError] : S \in SUBSET DOMAIN ClusterPods}
        \cup {[items |-> <<>>, err |-> Refused], [items |-> <<>>, err |-> Canceled]}

\* Whether the counting loop counts the pod: it skips a pod that is not
\* Running or has no containers, and counts one that has an istio-proxy
\* container once (break).
CountsAsSidecar(pod) ==
    /\ ~(pod.Phase # "Running" \/ Len(pod.Containers) = 0)
    /\ HasIstio(pod)

\* namespacesWithSidecars[ns] after the counting loop (0: no entry).
SidecarCount(items, ns) ==
    Cardinality({k \in DOMAIN items : items[k].Namespace = ns /\ CountsAsSidecar(items[k])})

\* Mutant of NamespaceCountLess: ties are broken by name descending.
NamespaceCountLess_NameDescending(x, y) ==
    IF x.count # y.count THEN x.count > y.count ELSE NameLess(y.namespace, x.namespace)

\* The less function given to sort.Slice.
NamespaceCountLess(x, y) ==
    IF x.count # y.count THEN x.count > y.count ELSE NameLess(x.namespace, y.namespace)

RECURSIVE SortNamespaceCounts(_)
\* sort.Slice(namespaceCounts, less): the entries have distinct namespaces, so
\* less orders them totally and the sorted slice is the same whatever order
\* the range over the map appended them in.
SortNamespaceCounts(S) ==
    IF S = {} THEN <<>>
    ELSE LET first == CHOOSE x \in S : \A y \in S \ {x} : NamespaceCountLess(x, y)
         IN  <<first>> \o SortNamespaceCounts(S \ {first})

\* The recommendation column, by zero-based rank.
Recommendation(rank) ==
    IF rank = 0 THEN "BEST - Most Istio-injected workloads"
    ELSE IF rank < 3 THEN "Good - High Istio adoption"
    ELSE IF rank < 5 THEN "Moderate - Some Istio usage"
    ELSE "Low - Minimal Istio usage"

\* fmt.Sprintf("%4d | %-9s | %13d | ", rank+1, nc.namespace, nc.count)
RankColumns(rank, namespace, count) ==
    PadLeft(ToString(rank + 1), 4) \o " | " \o PadRight(namespace, 9) \o " | "
        \o PadLeft(ToString(count), 13) \o " | "

RECURSIVE RankLines(_, _)
\* for rank, nc := range namespaceCounts { result += ... }
RankLines(namespaceCounts, rank) ==
    IF rank >= Len(namespaceCounts) THEN ""
    ELSE RankColumns(rank, namespaceCounts[rank + 1].namespace, namespaceCounts[rank + 1].count)
            \o Recommendation(rank) \o "\n"
         \o RankLines(namespaceCounts, rank + 1)

\* Istio.DiscoverNamespacesWithSidecars, given what the List call returns.
DiscoverNamespacesWithSidecars(l) ==
    LET namespacesWithSidecars ==
            {[namespace |-> NamespaceOrder[k], count |-> SidecarCount(l.items, NamespaceOrder[k])] :
                k \in {j \in DOMAIN NamespaceOrder : SidecarCount(l.items, NamespaceOrder[j]) > 0}}
        namespaceCounts == SortNamespaceCounts(namespacesWithSidecars)
    IN  IF ~l.err.isNil
            THEN [content |-> "",
                  err |-> ErrorOf("failed to list running pods for Istio sidecar discovery: "
                                    \o l.err.msg)]
        ELSE IF namespacesWithSidecars = {}
            THEN [content |-> "No namespaces with Istio sidecars found", err |-> NoError]
        ELSE [content |-> "Found " \o ToString(Len(namespaceCounts))
                            \o " namespaces with Istio sidecars:\n\n"
                            \o "Rank | Namespace | Sidecar Count | Recommendation\n"
                            \o "-----|-----------|---------------|----------------\n"
                            \o RankLines(namespaceCounts, 0)
                            \o "\n" \o Icon.hint \o " **Recommendation**: Start with the top-ranked namespace for Istio operations as it likely contains the most Istio configuration and traffic.",
              err |-> NoError]

\* ------------------------------------------------- backend handle and watch
\* The file buildConfig reads the configuration from.
ConfigFile(k) == IF k = "" THEN "home" ELSE k

\* NewIstio(kubeconfig) returns a handle and a nil error: the configuration
\* resolves and both clients can be constructed from it.
NewIstioOk(k) == fileState[ConfigFile(k)] = "good"

\* A freshly constructed *istio.Istio: no watch yet.
NewHandle(k) == [closeWatch |-> 0, kubeconfig |-> k]

\* clientcmd.NewDefaultClientConfigLoadingRules().Precedence: the default location.
DefaultPrecedence == {"home"}

\* clientcmd.NewClientConfigFromBytes(nil) fails: it never does, empty bytes
\* load as an empty configuration with a nil error.
NewClientConfigFromBytesFails == FALSE

\* buildConfig, then ConfigAccess().GetLoadingPrecedence() on its clientCmdConfig:
\* the sets of files a watch on this handle may observe. With an explicit path
\* the clientCmdConfig is the one NewClientConfigFromBytes(nil) returns; it was
\* given no path, so its ConfigAccess is nil (no files, no watch) or carries the
\* default loading rules, whichever the library does. The path's own loading
\* rules are used only in the fallback branch.
LoadingPrecedence(k) ==
    IF k # ""
        THEN IF NewClientConfigFromBytesFails THEN {{k}} ELSE {{}, DefaultPrecedence}
        ELSE {DefaultPrecedence}

\* watcher.Close(): the watch ends and its undelivered events are dropped.
CloseWatcher(ws, w) ==
    [ws EXCEPT ![w].closed = TRUE, ![w].closeCalls = @ + 1, ![w].events = 0]

\* A new fsnotify watcher with its goroutine, owned by handle h.
NewWatcher(h, files) ==
    [owner |-> h, files |-> files, closed |-> FALSE, closeCalls |-> 0, events |-> 0,
     pc |-> "wait", newH |-> 0]

\* Mutant of WatchKubeConfig: the error of fsnotify.NewWatcher is not looked at.
WatchKubeConfig_CreatesAnyway(hs, ws, h, files, created) ==
    LET added == {f \in files : fileState[f] # "missing"}
        w == Len(ws) + 1
        prev == hs[h].closeWatch
        ws1 == Append(ws, NewWatcher(h, added))
    IN  IF files = {}
            THEN [handles |-> hs, watchers |-> ws]
            ELSE [handles |-> [hs EXCEPT ![h].closeWatch = w],
                  watchers |-> IF prev # 0 THEN CloseWatcher(ws1, prev) ELSE ws1]

\* Istio.WatchKubeConfig on handle h: returns the handles and watchers after it.
\* files is what GetLoadingPrecedence returned, created is whether
\* fsnotify.NewWatcher succeeded; watcher.Add fails for a file that does not exist.
WatchKubeConfig(hs, ws, h, files, created) ==
    LET added == {f \in files : fileState[f] # "missing"}
        w == Len(ws) + 1
        prev == hs[h].closeWatch
        ws1 == Append(ws, NewWatcher(h, added))
    IN  IF files = {} \/ ~created
            THEN [handles |-> hs, watchers |-> ws]
            ELSE [handles |-> [hs EXCEPT ![h].closeWatch = w],
                  watchers |-> IF prev # 0 THEN CloseWatcher(ws1, prev) ELSE ws1]

\* Istio.Close on handle h.
IstioClose(hs, ws, h) ==
    IF hs[h].closeWatch # 0 THEN CloseWatcher(ws, hs[h].closeWatch) ELSE ws

\* s.server.SetTools(profile.GetTools(s)...): the catalog built under handle h.
SetTools(h) ==
    [builtFor |-> h, names |-> GetTools,
     tools |-> [k \in 1..Len(GetTools) |-> Tool(GetTools[k])]]
NoCatalog == [builtFor |-> 0, names |-> <<>>, tools |-> <<>>]

\* -------------------------------------------------------------- invocations
\* One invocation in flight is modelled: invocations only read s.i and share
\* nothing else, so each one interleaves with the reload on its own.
IdleInv == [pc |-> "idle", startH |-> 0, startCalls |-> 0, h |-> 0, used |-> {}, left |-> 0]

\* Every result a handler's argument extraction can have, over all the tools of
\* the catalog and all their argument maps.
HandlerOutcomes == UNION {{Handler(tool, args) : args \in ArgMapsOf(tool)} : tool \in ToolNames}

\* What the rest of an invocation depends on: the kind of the outcome and the
\* number of backend queries the called method issues.
StartKind(o) ==
    [kind |-> o.kind,
     queries |-> IF o.kind = "call" THEN Min(BackendQueries(o.method), MaxQueries) ELSE 0]
StartKinds == {StartKind(o) : o \in HandlerOutcomes}

\* The invocation right after the handler's argument extraction.
StartedInv(k) ==
    [IdleInv EXCEPT
        !.pc = IF k.kind = "panic" THEN "panicked"
               ELSE IF k.kind = "error" THEN "done" ELSE "extracted",
        !.startH = s_i,
        !.startCalls = reloadCalls,
        !.left = k.queries]

\* Mutant of QueryHandle: the backend method evaluates s.i again for each query.
QueryHandle_Reread == s_i

\* The handle a backend method issues a query through: its receiver, which
\* the handler read from s.i once.
QueryHandle == inv.h

\* ------------------------------------------------------------------ actions
IdleCall == [pc |-> "none"]
IdleEnv == [pc |-> "none"]

Init ==
    /\ kubeconfig \in KubeconfigArgs
    /\ fileState \in [Files -> FileStates]
    /\ mainPc = "new"
    /\ s_i = 0
    /\ catalog = NoCatalog
    /\ handles = <<>>
    /\ watchers = <<>>
    /\ changes = 0 /\ reloadCalls = 0 /\ logged = 0 /\ dirty = FALSE /\ watchErr = FALSE
    /\ inv = IdleInv
    /\ call = IdleCall
    /\ env = IdleEnv

\* NewServer with a configuration NewIstio accepts: reloadIstioClient installs
\* the handle and the tools, then WatchKubeConfig starts the watch.
NewServerOk ==
    /\ mainPc = "new"
    /\ NewIstioOk(kubeconfig)
    /\ \E files \in LoadingPrecedence(kubeconfig), created \in BOOLEAN :
        LET h == Len(handles) + 1
            r == WatchKubeConfig(Append(handles, NewHandle(kubeconfig)), watchers, h, files, created)
        IN  /\ s_i' = h
            /\ watchErr' = (files # {} /\ ~created)
            /\ catalog' = SetTools(h)
            /\ handles' = r.handles
            /\ watchers' = r.watchers
    /\ mainPc' = "running"
    /\ UNCHANGED <<kubeconfig, fileState, changes, reloadCalls, logged, dirty, inv, call, env>>

\* Mutant of NewServerFail: the tools are registered before the error of
\* NewIstio is looked at.
NewServerFail_ToolsFirst ==
    /\ mainPc = "new"
    /\ ~NewIstioOk(kubeconfig)
    /\ mainPc' = "failed"
    /\ catalog' = SetTools(s_i)
    /\ UNCHANGED <<kubeconfig, watchErr, fileState, s_i, handles, watchers,
                   changes, reloadCalls, logged, dirty, inv, call, env>>

\* NewServer when reloadIstioClient returns an error: return nil, err.
NewServerFail ==
    /\ mainPc = "new"
    /\ ~NewIstioOk(kubeconfig)
    /\ mainPc' = "failed"
    /\ UNCHANGED <<kubeconfig, watchErr, fileState, s_i, catalog, handles, watchers,
                   changes, reloadCalls, logged, dirty, inv, call, env>>

\* The environment writes a kubeconfig file; every live watch on it gets an event.
ModifyFile(f, st) ==
    /\ mainPc \in {"running", "closed"}
    /\ changes < MaxChanges
    /\ changes' = changes + 1
    /\ fileState' = [fileState EXCEPT ![f] = st]
    /\ watchers' = [w \in DOMAIN watchers |->
                        IF ~watchers[w].closed /\ f \in watchers[w].files
                            THEN [watchers[w] EXCEPT !.events = @ + 1]
                            ELSE watchers[w]]
    /\ dirty' = (dirty \/ (mainPc = "running" /\ f = ConfigFile(kubeconfig)))
    /\ UNCHANGED <<kubeconfig, watchErr, mainPc, s_i, catalog, handles, reloadCalls, logged, inv, call, env>>

\* Mutant of WatcherReloadOk: the callback is started for an event while the
\* reload of an earlier event is still running (go onKubeConfigChange()).
WatcherReloadOk_Concurrent(w) ==
    /\ watchers[w].pc # "exited" /\ ~watchers[w].closed /\ watchers[w].events > 0
    /\ NewIstioOk(kubeconfig)
    /\ handles' = Append(handles, NewHandle(kubeconfig))
    /\ watchers' = [watchers EXCEPT ![w].events = @ - 1, ![w].pc = "assign",
                                    ![w].newH = Len(handles) + 1]
    /\ reloadCalls' = reloadCalls + 1
    /\ dirty' = FALSE
    /\ UNCHANGED <<kubeconfig, watchErr, fileState, mainPc, s_i, catalog, changes, logged, inv, call, env>>

\* The watcher goroutine takes an event and calls onKubeConfigChange, that is
\* reloadIstioClient, whose NewIstio succeeds: the new handle is in its local i.
WatcherReloadOk(w) ==
    /\ watchers[w].pc = "wait" /\ ~watchers[w].closed /\ watchers[w].events > 0
    /\ NewIstioOk(kubeconfig)
    /\ handles' = Append(handles, NewHandle(kubeconfig))
    /\ watchers' = [watchers EXCEPT ![w].events = @ - 1, ![w].pc = "assign",
                                    ![w].newH = Len(handles) + 1]
    /\ reloadCalls' = reloadCalls + 1
    /\ dirty' = FALSE
    /\ UNCHANGED <<kubeconfig, watchErr, fileState, mainPc, s_i, catalog, changes, logged, inv, call, env>>

\* Mutant of WatcherReloadFail: the goroutine returns when the callback fails;
\* its deferred watcher.Close() runs.
WatcherReloadFail_StopsWatcher(w) ==
    /\ watchers[w].pc = "wait" /\ ~watchers[w].closed /\ watchers[w].events > 0
    /\ ~NewIstioOk(kubeconfig)
    /\ watchers' = [watchers EXCEPT ![w].events = 0, ![w].pc = "exited",
                                    ![w].closed = TRUE, ![w].closeCalls = @ + 1]
    /\ reloadCalls' = reloadCalls + 1
    /\ logged' = logged + 1
    /\ dirty' = FALSE
    /\ UNCHANGED <<kubeconfig, watchErr, fileState, mainPc, s_i, catalog, handles, changes, inv, call, env>>

\* Mutant of WatcherReloadFail: s.i is assigned the (nil) result of NewIstio
\* before the error is looked at.
WatcherReloadFail_AssignFirst(w) ==
    /\ watchers[w].pc = "wait" /\ ~watchers[w].closed /\ watchers[w].events > 0
    /\ ~NewIstioOk(kubeconfig)
    /\ watchers' = [watchers EXCEPT ![w].events = @ - 1]
    /\ reloadCalls' = reloadCalls + 1
    /\ logged' = logged + 1
    /\ dirty' = FALSE
    /\ s_i' = 0
    /\ UNCHANGED <<kubeconfig, watchErr, fileState, mainPc, catalog, handles, changes, inv, call, env>>

\* The same, with NewIstio failing: reloadIstioClient returns the error and the
\* goroutine logs it and goes on waiting.
WatcherReloadFail(w) ==
    /\ watchers[w].pc = "wait" /\ ~watchers[w].closed /\ watchers[w].events > 0
    /\ ~NewIstioOk(kubeconfig)
    /\ watchers' = [watchers EXCEPT ![w].events = @ - 1]
    /\ reloadCalls' = reloadCalls + 1
    /\ logged' = logged + 1
    /\ dirty' = FALSE
    /\ UNCHANGED <<kubeconfig, watchErr, fileState, mainPc, s_i, catalog, handles, changes, inv, call, env>>

\* reloadIstioClient: s.i = i
WatcherAssign(w) ==
    /\ watchers[w].pc = "assign"
    /\ s_i' = watchers[w].newH
    /\ watchers' = [watchers EXCEPT ![w].pc = "setTools"]
    /\ UNCHANGED <<kubeconfig, watchErr, fileState, mainPc, catalog, handles,
                   changes, reloadCalls, logged, dirty, inv, call, env>>

\* reloadIstioClient: GetTools(s) and SetTools, then back to the event loop.
WatcherSetTools(w) ==
    /\ watchers[w].pc = "setTools"
    /\ catalog' = SetTools(s_i)
    /\ watchers' = [watchers EXCEPT ![w].pc = "wait", ![w].newH = 0]
    /\ UNCHANGED <<kubeconfig, watchErr, fileState, mainPc, s_i, handles,
                   changes, reloadCalls, logged, dirty, inv, call, env>>

\* The goroutine finds the events channel closed and returns; its deferred
\* watcher.Close() runs.
WatcherExit(w) ==
    /\ watchers[w].pc = "wait" /\ watchers[w].closed
    /\ watchers' = [watchers EXCEPT ![w].pc = "exited", ![w].closeCalls = @ + 1]
    /\ UNCHANGED <<kubeconfig, watchErr, fileState, mainPc, s_i, catalog, handles,
                   changes, reloadCalls, logged, dirty, inv, call, env>>

\* Server.Close: s.i.Close() when s.i is not nil.
Close ==
    /\ mainPc = "running"
    /\ mainPc' = "closed"
    /\ watchers' = IF s_i # 0 THEN IstioClose(handles, watchers, s_i) ELSE watchers
    /\ UNCHANGED <<kubeconfig, watchErr, fileState, s_i, catalog, handles,
                   changes, reloadCalls, logged, dirty, inv, call, env>>

\* A client calls a tool of the registered catalog; the handler extracts its
\* arguments, with outcome kind k.
Start(k) ==
    /\ mainPc = "running"
    /\ inv.pc = "idle"
    /\ catalog.names # <<>>
    /\ inv' = StartedInv(k)
    /\ UNCHANGED <<lifeVars, call, env>>

\* The handler evaluates s.i for its one backend method call.
ReadHandle ==
    /\ inv.pc = "extracted"
    /\ inv' = [inv EXCEPT !.h = s_i, !.pc = "querying"]
    /\ UNCHANGED <<lifeVars, call, env>>

\* The backend method issues its next query.
Query ==
    /\ inv.pc = "querying"
    /\ inv.left > 0
    /\ inv' = [inv EXCEPT !.used = @ \cup {QueryHandle},
                          !.left = @ - 1,
                          !.pc = IF inv.left = 1 THEN "done" ELSE "querying"]
    /\ UNCHANGED <<lifeVars, call, env>>

\* The invocation is over: its result was returned, or its panic unwound.
Finish ==
    /\ inv.pc \in {"done", "panicked"}
    /\ inv' = IdleInv
    /\ UNCHANGED <<lifeVars, call, env>>

Next ==
    \/ NewServerOk
    \/ NewServerFail
    \/ \E f \in Files, st \in {"bad", "good"} : ModifyFile(f, st)
    \/ \E w \in DOMAIN watchers : WatcherReloadOk(w)
    \/ \E w \in DOMAIN watchers : WatcherReloadFail(w)
    \/ \E w \in DOMAIN watchers : WatcherAssign(w)
    \/ \E w \in DOMAIN watchers : WatcherSetTools(w)
    \/ \E w \in DOMAIN watchers : WatcherExit(w)
    \/ Close
    \/ \E k \in StartKinds : Start(k)
    \/ ReadHandle
    \/ Query
    \/ Finish

Spec == Init /\ [][Next]_vars

\* ------------------------------------------- one handler call, in isolation
\* What the backend method gives back: a text and a nil error, or "" and an error.
BackendReturns == {[content |-> "out", err |-> NoError],
                   [content |-> "", err |-> NoError],
                   [content |-> "", err |-> ErrorOf("backend error")]}

NilResult == [IsError |-> FALSE, Content |-> <<>>]
NoList == [items |-> <<>>, err |-> NoError]

\* No cluster looked at yet.
NoCluster ==
    [svcErr |-> NoError, selector |-> NilSelector,
     endpoints |-> [subsets |-> <<>>, err |-> NoError], pods |-> [items |-> <<>>, err |-> NoError]]

InitHandler ==
    /\ kubeconfig = "home"
    /\ fileState = [f \in Files |-> "good"]
    /\ mainPc = "running"
    /\ s_i = 1
    /\ catalog = SetTools(1)
    /\ handles = <<NewHandle("home")>>
    /\ watchers = <<>>
    /\ changes = 0 /\ reloadCalls = 0 /\ logged = 0 /\ dirty = FALSE /\ watchErr = FALSE
    /\ inv = IdleInv
    /\ env = IdleEnv
    /\ \E tool \in ToolNames : \E args \in ArgMapsOf(tool) :
        call = [pc |-> "called", tool |-> tool, args |-> args,
                out |-> Outcome("", "", "", "", "", ""), result |-> NilResult,
                cmds |-> <<>>, run |-> NoRun, list |-> NoList, lists |-> <<>>, issued |-> {},
                cluster |-> NoCluster, again |-> NilResult]

\* The handler's argument extraction panics: nothing is returned.
HandlerPanics ==
    /\ call.pc = "called"
    /\ Handler(call.tool, call.args).kind = "panic"
    /\ call' = [call EXCEPT !.pc = "panicked", !.out = Handler(call.tool, call.args)]
    /\ UNCHANGED <<lifeVars, inv, env>>

\* The handler returns early: NewTextResult("", fmt.Errorf(msg)), nil.
HandlerEarlyReturn ==
    /\ call.pc = "called"
    /\ Handler(call.tool, call.args).kind = "error"
    /\ call' = [call EXCEPT !.pc = "returned", !.out = Handler(call.tool, call.args),
                            !.result = NewTextResult("", ErrorOf(Handler(call.tool, call.args).msg))]
    /\ UNCHANGED <<lifeVars, inv, env>>

\* The handler calls its backend method through s.i.
HandlerCallsBackend ==
    /\ call.pc = "called"
    /\ Handler(call.tool, call.args).kind = "call"
    /\ call' = [call EXCEPT !.pc = "backend", !.out = Handler(call.tool, call.args)]
    /\ UNCHANGED <<lifeVars, inv, env>>

\* The backend method returns (content, err); the handler returns
\* NewTextResult(content, err), nil. (The methods that are neither a single
\* listing nor an istioctl run.)
HandlerReturns(r) ==
    /\ call.pc = "backend"
    /\ call.out.method \notin ProxyMethods \cup ListingMethods
    /\ call' = [call EXCEPT !.pc = "returned", !.result = NewTextResult(r.content, r.err)]
    /\ UNCHANGED <<lifeVars, inv, env>>

\* A ProxyConfigClient method runs istioctl once through execIstioctl, with the
\* kubeconfig the handle was built from; the handler wraps what it returns.
ProxyReturns(run) ==
    /\ call.pc = "backend"
    /\ call.out.method \in ProxyMethods
    /\ LET r == execIstioctl(run)
       IN  call' = [call EXCEPT
                !.pc = "returned",
                !.cmds = Append(@, CmdArgs(handles[s_i].kubeconfig,
                                IstioctlArgs(call.out.method, call.out.namespace, call.out.a1))),
                !.run = run,
                !.result = NewTextResult(r.content, r.err)]
    /\ UNCHANGED <<lifeVars, inv, env>>

\* A listing method issues its List call and formats what comes back; the
\* handler wraps the result.
ListingReturns(l) ==
    /\ call.pc = "backend"
    /\ call.out.method \in ListingMethods
    /\ LET r == GetListing(call.out.method, call.out.namespace, l)
       IN  call' = [call EXCEPT !.pc = "returned", !.list = l,
                                !.result = NewTextResult(r.content, r.err)]
    /\ UNCHANGED <<lifeVars, inv, env>>

\* GetIstioConfigSummary issues its eight List calls; the handler wraps the result.
SummaryReturns(rs) ==
    /\ call.pc = "backend"
    /\ call.out.method = "GetIstioConfigSummary"
    /\ LET r == GetIstioConfigSummary(call.out.namespace, rs)
       IN  call' = [call EXCEPT !.pc = "returned", !.lists = rs, !.issued = DOMAIN rs,
                                !.result = NewTextResult(r.content, r.err)]
    /\ UNCHANGED <<lifeVars, inv, env>>

\* get-istio-config alone, with each of its eight List calls modelled.
InitSummary ==
    /\ InitHandler
    /\ call.tool = "get-istio-config"

NextSummary ==
    \/ HandlerPanics
    \/ HandlerCallsBackend
    \/ \E rs \in SummaryRuns : SummaryReturns(rs)

SpecSummary == InitSummary /\ [][NextSummary]_vars

\* CheckExternalDependencyAvailability issues its List calls; the handler wraps
\* the result.
CheckReturns(rs) ==
    /\ call.pc = "backend"
    /\ call.out.method = "CheckExternalDependencyAvailability"
    /\ LET r == CheckExternalDependencyAvailability(call.out.a1, call.out.a2,
                                                    call.out.namespace, rs)
       IN  call' = [call EXCEPT !.pc = "returned", !.issued = r.issued,
                                !.lists = [k \in r.issued |-> rs[k]],
                                !.result = NewTextResult(r.content, r.err)]
    /\ UNCHANGED <<lifeVars, inv, env>>

\* check-external-dependency-availability alone, with each of its List calls
\* modelled.
InitCheck ==
    /\ InitHandler
    /\ call.tool = "check-external-dependency-availability"

NextCheck ==
    \/ HandlerPanics
    \/ HandlerEarlyReturn
    \/ HandlerCallsBackend
    \/ \E rs \in CheckRuns : CheckReturns(rs)

SpecCheck == InitCheck /\ [][NextCheck]_vars

\* GetPodsByService reads the cluster b; the range over the selector visits its
\* entries in some order. The handler wraps the result.
PodsReturns(b, order) ==
    /\ call.pc = "backend"
    /\ call.out.method = "GetPodsByService"
    /\ LET r == GetPodsByService(call.out.namespace, call.out.a1, b, order)
       IN  call' = [call EXCEPT !.pc = "returned", !.cluster = b,
                                !.result = NewTextResult(r.content, r.err)]
    /\ UNCHANGED <<lifeVars, inv, env>>

\* The same tool is invoked again with the same arguments, the cluster and the
\* handle unchanged; the range over the selector picks its order afresh.
PodsInvokedAgain(order) ==
    /\ call.pc = "returned"
    /\ call.out.kind = "call"
    /\ call.out.method = "GetPodsByService"
    /\ LET r == GetPodsByService(call.out.namespace, call.out.a1, call.cluster, order)
       IN  call' = [call EXCEPT !.pc = "repeated", !.again = NewTextResult(r.content, r.err)]
    /\ UNCHANGED <<lifeVars, inv, env>>

\* get-pods-by-service alone, invoked twice against one cluster.
InitPods ==
    /\ InitHandler
    /\ call.tool = "get-pods-by-service"

NextPods ==
    \/ HandlerPanics
    \/ HandlerEarlyReturn
    \/ HandlerCallsBackend
    \/ \E b \in ServiceBackends : \E order \in RangeOrders(b.selector.labels) :
            PodsReturns(b, order)
    \/ \E order \in RangeOrders(call.cluster.selector.labels) : PodsInvokedAgain(order)

SpecPods == InitPods /\ [][NextPods]_vars

\* DiscoverNamespacesWithSidecars lists the pods of all namespaces; the handler
\* wraps the result.
DiscoverReturns(l) ==
    /\ call.pc = "backend"
    /\ call.out.method = "DiscoverNamespacesWithSidecars"
    /\ LET r == DiscoverNamespacesWithSidecars(l)
       IN  call' = [call EXCEPT !.pc = "returned", !.list = l,
                                !.result = NewTextResult(r.content, r.err)]
    /\ UNCHANGED <<lifeVars, inv, env>>

\* discover-istio-namespaces alone, with its List call modelled.
InitDiscover ==
    /\ InitHandler
    /\ call.tool = "discover-istio-namespaces"

NextDiscover ==
    \/ HandlerCallsBackend
    \/ \E l \in ClusterListResults : DiscoverReturns(l)

SpecDiscover == InitDiscover /\ [][NextDiscover]_vars

NextHandler ==
    \/ HandlerPanics
    \/ HandlerEarlyReturn
    \/ HandlerCallsBackend
    \/ \E r \in BackendReturns : HandlerReturns(r)
    \/ \E run \in Runs : ProxyReturns(run)
    \/ \E l \in ListResults : ListingReturns(l)

SpecHandler == InitHandler /\ [][NextHandler]_vars

\* --------------------------------------- one NewTextResult call, in isolation
Contents == {"", "a", "b", "out", "test content", "test error", "backend error",
             "Found 0 Virtual Services in namespace 'default':"}
ErrorMessages == {"", "a", "test error", "backend error", "pod name is required",
                  "service-name is required"}
Errors == {NoError} \cup {ErrorOf(m) : m \in ErrorMessages}

InitEnvelope ==
    /\ kubeconfig = "home"
    /\ fileState = [f \in Files |-> "good"]
    /\ mainPc = "running"
    /\ s_i = 1
    /\ catalog = SetTools(1)
    /\ handles = <<NewHandle("home")>>
    /\ watchers = <<>>
    /\ changes = 0 /\ reloadCalls = 0 /\ logged = 0 /\ dirty = FALSE /\ watchErr = FALSE
    /\ inv = IdleInv
    /\ call = IdleCall
    /\ \E c \in Contents, e \in Errors :
        env = [pc |-> "input", content |-> c, err |-> e, result |-> NilResult]

ApplyNewTextResult ==
    /\ env.pc = "input"
    /\ env' = [env EXCEPT !.pc = "result", !.result = NewTextResult(env.content, env.err)]
    /\ UNCHANGED <<lifeVars, inv, call>>

NextEnvelope == ApplyNewTextResult

SpecEnvelope == InitEnvelope /\ [][NextEnvelope]_vars

\* ================================================================= claims
ReloadInProgress == \E w \in DOMAIN watchers : watchers[w].pc \in {"assign", "setTools"}
LiveWatchers == {w \in DOMAIN watchers : ~watchers[w].closed}

\* C1: every backend query of one invocation goes through one handle, the one
\* the handler read from s.i; that handle is never older than the handle
\* installed when the invocation started, and never one that is not installed
\* yet (an invocation that is over before a reload used the old handle only).
C1_OneHandlePerInvocation ==
    /\ inv.used \subseteq {inv.h}
    /\ inv.h # 0 => (inv.startH <= inv.h /\ inv.h <= s_i)
    /\ inv.pc = "done" /\ inv.used # {} => inv.used = {inv.h}

\* C1 witness: an invocation that started after a reload had installed the
\* second handle has finished, and every query of it went through that handle.
C1_Witness ==
    /\ inv.pc = "done"
    /\ inv.startH = 2
    /\ inv.used = {2}
    /\ Len(handles) >= 2

\* C2: while the server runs, the registered catalog is the one built under
\* the installed handle, and a handler's read of s.i is never enabled together
\* with the reload's write of s.i (the two are ordered by a lock).
HandleRace == inv.pc = "extracted" /\ \E w \in DOMAIN watchers : watchers[w].pc = "assign"
C2_HandleAndCatalogSwappedTogether ==
    mainPc = "running" => (catalog.builtFor = s_i /\ ~HandleRace)

\* C3: a reload whose NewIstio fails leaves the handle, the catalog and the
\* handles constructed so far unchanged, is logged once by the watcher
\* goroutine, which stays in its loop; and as long as every reload so far has
\* failed, the startup handle is installed and is the only one queried.
C3_FailedReloadKeepsHandle ==
    /\ [](mainPc \in {"running", "closed"} /\ logged = reloadCalls =>
            (s_i = 1 /\ catalog = SetTools(1) /\ inv.used \subseteq {1}))
    /\ [][(reloadCalls' = reloadCalls + 1 /\ ~NewIstioOk(kubeconfig)) =>
            /\ s_i' = s_i
            /\ catalog' = catalog
            /\ handles' = handles
            /\ logged' = logged + 1
            /\ \A w \in DOMAIN watchers :
                    /\ watchers'[w].pc = "wait"
                    /\ watchers'[w].closed = watchers[w].closed]_vars

\* C3 witness: every reload so far has failed, and an invocation that started
\* after one of them has finished with its queries through the installed handle.
C3_Witness ==
    /\ logged >= 1 /\ logged = reloadCalls
    /\ inv.pc = "done" /\ inv.startCalls >= 1
    /\ inv.used = {s_i}

\* C4: every watch was installed on a handle that had been constructed, at most
\* one watch is live, and once a reload is over the only live watch is the one
\* of the installed handle (the replaced handle's watch is not left running).
C4_WatchFollowsHandle ==
    /\ \A w \in DOMAIN watchers : watchers[w].owner \in DOMAIN handles
    /\ Cardinality(LiveWatchers) <= 1
    /\ mainPc = "running" /\ ~ReloadInProgress =>
            \A w \in LiveWatchers : watchers[w].owner = s_i

\* C5: no watcher is closed more than once, and after shutdown the watch of
\* every handle, replaced or current, has been closed once.
C5_CleanupExactlyOnce ==
    /\ \A w \in DOMAIN watchers : watchers[w].closeCalls <= 1
    /\ mainPc = "closed" => \A w \in DOMAIN watchers : watchers[w].closeCalls = 1

\* C6: after Server.Close no watch installed by the server is live, so no
\* later file change can reach reloadIstioClient.
C6_NoWatchAfterClose ==
    mainPc = "closed" => LiveWatchers = {}

\* C7: while the server runs and its watcher could be created, a modification
\* of the file the configuration was read from that no reload has answered yet
\* has a change event waiting at a live watcher (so the reload callback will be
\* invoked), whether the path was given explicitly or resolved by default.
C7_BackingFileChangeReloads ==
    mainPc = "running" /\ ~watchErr /\ dirty =>
        \E w \in LiveWatchers : watchers[w].events > 0

\* C8: NewServer fails whenever NewIstio rejects the configuration, and after
\* a failed NewServer no handle is installed or constructed, no watch exists
\* and no tool is registered.
C8_FailedStartInstallsNothing ==
    /\ mainPc # "new" /\ changes = 0 /\ ~NewIstioOk(kubeconfig) => mainPc = "failed"
    /\ mainPc = "failed" =>
            /\ s_i = 0
            /\ catalog = NoCatalog
            /\ handles = <<>>
            /\ watchers = <<>>

\* C8 witness: NewServer has failed.
C8_Witness == mainPc = "failed" /\ ~NewIstioOk(kubeconfig)

\* C9: for every tool and every argument map, the handler does not panic and
\* what it returns is a result envelope with one content item.
C9_HandlerNeverPanics ==
    /\ call.pc # "panicked"
    /\ call.pc = "returned" => Len(call.result.Content) = 1

\* C10: NewTextResult returns exactly one text item; IsError is true exactly
\* when err is not nil; the text is the error's message when err is not nil,
\* whatever the content, and the content otherwise.
C10_NewTextResult ==
    env.pc = "result" =>
        /\ Len(env.result.Content) = 1
        /\ env.result.Content[1].Type = "text"
        /\ env.result.IsError = ~env.err.isNil
        /\ env.result.Content[1].Text = IF env.err.isNil THEN env.content ELSE env.err.msg

\* C10 witness: an error envelope built from a non-empty content that differs
\* from the error's message.
C10_Witness ==
    /\ env.pc = "result"
    /\ ~env.err.isNil
    /\ env.content # "" /\ env.content # env.err.msg
    /\ env.result.IsError
    /\ env.result.Content = <<TextContent(env.err.msg)>>

\* C11: once NewServer has succeeded, after the initial build and after every
\* reload, the registered catalog is not empty and every tool in it has its
\* read-only hint set to true and its destructive hint set (not nil) to false.
C11_CatalogAnnotations ==
    mainPc \in {"running", "closed"} =>
        /\ catalog.tools # <<>>
        /\ \A k \in DOMAIN catalog.tools :
                /\ catalog.tools[k].Annotations.ReadOnlyHint = "true"
                /\ catalog.tools[k].Annotations.DestructiveHint # "nil"
                /\ catalog.tools[k].Annotations.DestructiveHint = "false"

\* C11 witness: the registered catalog is one a reload built, with the
\* analysis tool (the last one declared) in it.
C11_Witness ==
    /\ reloadCalls >= 1 /\ catalog.builtFor >= 2
    /\ \E k \in DOMAIN catalog.tools : catalog.tools[k].Name = "get-istio-analyze"

\* The catalog the source declares: networking, security, configuration, proxy.
ExpectedToolNames ==
    <<"get-virtual-services", "get-destination-rules", "get-gateways", "get-service-entries",
      "get-authorization-policies", "get-peer-authentications",
      "discover-istio-namespaces", "get-envoy-filters", "get-telemetry", "get-istio-config",
      "check-external-dependency-availability", "get-services", "get-pods-by-service",
      "get-proxy-clusters", "get-proxy-listeners", "get-proxy-routes", "get-proxy-endpoints",
      "get-proxy-bootstrap", "get-proxy-config-dump", "get-proxy-status", "get-istio-analyze">>

\* C12: every registered catalog, the startup one and each one a reload
\* builds, has the same complete list of names in the same order (networking,
\* security, configuration, proxy), pairwise distinct, with one descriptor per
\* name; a rebuild never changes the list.
C12_CatalogNamesFixed ==
    /\ [](catalog.builtFor # 0 =>
            /\ catalog.names = ExpectedToolNames
            /\ \A j, k \in DOMAIN catalog.names : j # k => catalog.names[j] # catalog.names[k]
            /\ DOMAIN catalog.tools = DOMAIN catalog.names
            /\ \A k \in DOMAIN catalog.names : catalog.tools[k].Name = catalog.names[k])
    /\ [][catalog.builtFor # 0 => catalog'.names = catalog.names]_vars

\* C12 witness: a catalog rebuilt by a reload whose handle differs from the
\* startup one, while the server runs.
C12_Witness ==
    /\ mainPc = "running" /\ catalog.builtFor = 2 /\ s_i = 2
    /\ Len(catalog.names) = 21

\* The argument map with no entry at all.
EmptyArgs == [k \in ParamNames |-> ArgNil]

\* C13 as stated: with an empty argument map a tool without required
\* parameters reaches the backend, and any other tool returns an error envelope
\* whose text is "<parameter> is required" for its first required parameter.
C13_EmptyArgsParameterIsRequired ==
    call.pc \in {"backend", "returned", "panicked"} /\ call.args = EmptyArgs =>
        IF RequiredOf(call.tool) = <<>>
            THEN call.out.kind = "call"
            ELSE /\ call.pc = "returned" /\ call.out.kind = "error"
                 /\ call.result.IsError
                 /\ call.result.Content = <<TextContent(RequiredOf(call.tool)[1] \o " is required")>>

\* The message each handler returns for its first missing required parameter.
RequiredMessage(tool) ==
    IF tool = "check-external-dependency-availability" THEN "service-name is required"
    ELSE IF tool = "get-pods-by-service"
        THEN "service name is required - use 'get-services' first to discover available services"
    ELSE "pod name is required"

\* C13 amended: with an empty argument map a tool without required parameters
\* reaches the backend, and any other tool returns an error envelope whose text
\* is the handler's fixed message for its first required parameter:
\* "service-name is required", "pod name is required" (the six pod tools) or
\* "service name is required - use 'get-services' first to discover available services".
C13_EmptyArgsFixedMessage ==
    call.pc \in {"backend", "returned", "panicked"} /\ call.args = EmptyArgs =>
        IF RequiredOf(call.tool) = <<>>
            THEN call.out.kind = "call"
            ELSE /\ call.pc = "returned" /\ call.out.kind = "error"
                 /\ call.result.IsError
                 /\ call.result.Content = <<TextContent(RequiredMessage(call.tool))>>

\* C13 witness: the external-dependency check, which has two required
\* parameters, was called with an empty map and named the first one.
C13_Witness ==
    /\ call.pc = "returned" /\ call.args = EmptyArgs
    /\ call.tool = "check-external-dependency-availability"
    /\ call.result.IsError
    /\ call.result.Content[1].Text = "service-name is required"

\* A required parameter of the called tool is absent or the empty string.
RequiredMissing ==
    \E k \in DOMAIN RequiredOf(call.tool) :
        call.args[RequiredOf(call.tool)[k]] \in {ArgNil, ArgStr("")}

\* C14: when a required parameter is absent or empty the handler returns an
\* error envelope (it does not panic) and never calls the backend.
C14_RequiredShortCircuits ==
    call.pc # "called" /\ RequiredMissing =>
        /\ call.pc = "returned"
        /\ call.out.kind = "error"
        /\ call.result.IsError

\* C15: whenever a tool that declares a namespace parameter reaches the backend
\* from an argument map without a namespace entry, the namespace it passes is
\* "default".
C15_NamespaceDefaultsToDefault ==
    /\ call.pc \in {"backend", "returned"} /\ call.out.kind = "call"
    /\ "namespace" \in ParamsOf(call.tool) /\ call.args["namespace"] = ArgNil
    => call.out.namespace = "default"

\* The namespace and pod the called handler extracted.
CallNamespace == StringOr(call.args["namespace"], "default")
CallPod == StringOr(call.args["pod"], "")

\* C16: a pod-requiring proxy tool called with pod p and namespace n
\* ("default" when absent) runs exactly one istioctl subprocess, proxy-config
\* <subcommand> p.n -o json; when the subprocess exits non-zero the result is an
\* error envelope whose text contains the exit error and the combined output,
\* and a success envelope comes only from a run that ended with exit code 0.
C16_PodToolRunsIstioctlOnce ==
    call.pc = "returned" /\ call.tool \in PodTools /\ call.out.kind = "call" =>
        /\ Len(call.cmds) = 1
        /\ call.cmds[1] = <<"--kubeconfig", "home", "proxy-config",
                            ProxyConfigSubcommand(call.out.method),
                            CallPod \o "." \o CallNamespace, "-o", "json">>
        /\ call.run.exit # 0 =>
                /\ call.result.IsError
                /\ Len(call.result.Content) = 1
                /\ Contains(call.result.Content[1].Text, RunError(call.run).msg)
                /\ Contains(call.result.Content[1].Text, call.run.output)
        /\ ~call.result.IsError => call.run.exit = 0 /\ ~TimedOut(call.run)

\* C16 witness: get-proxy-routes on pod v1 without a namespace ran istioctl on
\* v1.default, the process exited with status 1 after writing output.
C16_Witness ==
    /\ call.pc = "returned" /\ call.tool = "get-proxy-routes"
    /\ call.args["namespace"] = ArgNil /\ call.args["pod"] = ArgStr("v1")
    /\ call.run.exit = 1 /\ ~TimedOut(call.run) /\ call.run.output = "Error: not found"
    /\ call.cmds[1][5] = "v1.default"
    /\ call.result.IsError

\* C17: when the istioctl subprocess is killed by the timeout the result is an
\* error envelope, and the output the process wrote before that is nowhere in
\* the result.
C17_TimeoutDropsOutput ==
    /\ call.pc = "returned" /\ call.out.kind = "call" /\ call.out.method \in ProxyMethods
    /\ TimedOut(call.run) /\ call.run.output # ""
    => /\ call.result.IsError
       /\ \A k \in DOMAIN call.result.Content :
                ~Contains(call.result.Content[k].Text, call.run.output)

\* C18: get-proxy-status picks its istioctl invocation by pod alone: without a
\* pod the cluster-wide proxy-status, with a pod (whatever the namespace
\* argument) the pod-specific one for that pod.
C18_ProxyStatusBranchesOnPod ==
    call.pc \in {"backend", "returned"} /\ call.tool = "get-proxy-status" =>
        IF CallPod = ""
            THEN call.out.method = "ProxyConfig.GetProxyStatus"
            ELSE call.out.method = "ProxyConfig.GetProxyStatusForPod" /\ call.out.a1 = CallPod

\* C19: get-proxy-status with a namespace and no pod runs an istioctl
\* invocation that the namespace is part of.
C19_ProxyStatusNamespaceScoped ==
    /\ call.pc = "returned" /\ call.tool = "get-proxy-status"
    /\ call.args["pod"] = ArgNil /\ call.args["namespace"] = ArgStr("v1")
    => \E k \in DOMAIN call.cmds[1] : Contains(call.cmds[1][k], "v1")

\* The tools that list one kind of resource, and the kind each one reports.
ListingToolKind ==
    [t \in {"get-virtual-services", "get-destination-rules", "get-gateways",
            "get-service-entries", "get-authorization-policies", "get-peer-authentications",
            "get-envoy-filters", "get-telemetry"} |->
        CASE t = "get-virtual-services" -> "Virtual Services"
          [] t = "get-destination-rules" -> "Destination Rules"
          [] t = "get-gateways" -> "Gateways"
          [] t = "get-service-entries" -> "Service Entries"
          [] t = "get-authorization-policies" -> "Authorization Policies"
          [] t = "get-peer-authentications" -> "Peer Authentications"
          [] t = "get-envoy-filters" -> "Envoy Filters"
          [] t = "get-telemetry" -> "Telemetry configurations"]

\* C20: when the List call of a resource-listing tool returns zero items for
\* namespace ns, the result is a success envelope whose one text is exactly
\* "Found 0 <Kind> in namespace '<ns>':" and a newline.
C20_EmptyListingIsHeaderOnly ==
    /\ call.pc = "returned" /\ call.tool \in DOMAIN ListingToolKind /\ call.out.kind = "call"
    /\ call.list.err.isNil /\ call.list.items = <<>>
    => /\ ~call.result.IsError
       /\ call.result.Content =
            <<TextContent("Found 0 " \o ListingToolKind[call.tool] \o " in namespace '"
                          \o CallNamespace \o "':\n")>>

\* C20 witness: get-telemetry on namespace v1 returned from an empty list.
C20_Witness ==
    /\ call.pc = "returned" /\ call.tool = "get-telemetry"
    /\ call.args["namespace"] = ArgStr("v1")
    /\ call.list = NoList
    /\ call.result.Content[1].Text = "Found 0 Telemetry configurations in namespace 'v1':\n"

\* The positions of a text at which an item line ("- <name>") starts.
ItemLineStarts(text) ==
    {k \in 1..(Len(text) - 1) :
        /\ SubSeq(text, k, k + 1) = "- "
        /\ (k = 1 \/ SubSeq(text, k - 1, k - 1) = "\n")}

StartsWith(text, prefix) == SubSeq(text, 1, Len(prefix)) = prefix

\* The returned text of the call in progress.
CallText == call.result.Content[1].Text

ListingReturned ==
    /\ call.pc = "returned" /\ call.out.kind = "call" /\ call.out.method \in ListingMethods
    /\ call.list.err.isNil

\* C21: in the content of a resource-listing tool the count printed in the
\* header line is the number of item lines ("- <name>") that follow it.
C21_HeaderCountIsItemLines ==
    ListingReturned =>
        \E n \in 0..Len(CallText) :
            /\ StartsWith(CallText, "Found " \o ToString(n) \o " ")
            /\ Cardinality(ItemLineStarts(CallText)) = n

\* C21 witness: a listing of two items, one with and one without detail lines.
C21_Witness ==
    /\ ListingReturned /\ call.tool = "get-destination-rules"
    /\ call.list.items = <<ItemFull, ItemBare>>
    /\ StartsWith(CallText, "Found 2 Destination Rules")

\* C22: the item lines of a listing name the items in the order the List call
\* returned them: the i-th item line is "- <name of the i-th item>". For virtual
\* services a then b in namespace production the content begins
\* "Found 2 Virtual Services in namespace 'production':", then a's block, then b's.
C22_ItemsInBackendOrder ==
    ListingReturned =>
        /\ Cardinality(ItemLineStarts(CallText)) = Len(call.list.items)
        /\ \A p \in ItemLineStarts(CallText) :
                LET i == Cardinality({q \in ItemLineStarts(CallText) : q < p}) + 1
                    line == "- " \o call.list.items[i].Name \o "\n"
                IN  SubSeq(CallText, p, p + Len(line) - 1) = line
        /\ (/\ call.tool = "get-virtual-services"
            /\ call.args["namespace"] = ArgStr("production")
            /\ call.list.items = <<ItemBare, ItemFull>>)
            => StartsWith(CallText,
                    "Found 2 Virtual Services in namespace 'production':\n- a\n\n- b\n")

\* C22 witness: the scenario's call has returned, and also the same call with
\* the backend order b then a is possible (checked by its own item order).
C22_Witness ==
    /\ ListingReturned /\ call.tool = "get-virtual-services"
    /\ call.args["namespace"] = ArgStr("production")
    /\ call.list.items = <<ItemBare, ItemFull>>
    /\ Contains(CallText, "- a\n\n- b\n  Hosts: [x.com y.com]\n")

\* The positions of a text at which t occurs.
SummaryReturned ==
    call.pc = "returned" /\ call.tool = "get-istio-config" /\ call.out.kind = "call"

\* The count line the summary owes to its k-th listing: none when it failed.
SummaryLineOf(k) ==
    IF call.lists[k].err.isNil
        THEN SummaryLabels[k] \o ": " \o ToString(Len(call.lists[k].items)) \o "\n"
        ELSE ""

\* C24: get-istio-config returns a success envelope whichever of its eight
\* listings fail; the content is the header (a line and a blank line) followed
\* by one line "<Kind>: <count>" for each listing that succeeded, in the fixed
\* kind order, and nothing for a listing that failed.
C24_SummarySwallowsFailures ==
    SummaryReturned =>
        /\ ~call.result.IsError
        /\ Len(call.result.Content) = 1
        /\ CallText = "Istio Configuration Summary for namespace '" \o CallNamespace \o "':\n\n"
                        \o SummaryLineOf(1) \o SummaryLineOf(2) \o SummaryLineOf(3)
                        \o SummaryLineOf(4) \o SummaryLineOf(5) \o SummaryLineOf(6)
                        \o SummaryLineOf(7) \o SummaryLineOf(8)

\* C24 witness: the gateways and telemetry listings failed, the other six
\* succeeded, and the summary came back as a success.
C24_Witness ==
    /\ SummaryReturned /\ ~call.result.IsError
    /\ {k \in DOMAIN call.lists : ~call.lists[k].err.isNil} = {3, 8}
    /\ Len(call.lists[1].items) = 2
    /\ Contains(CallText, "Virtual Services: 2\nDestination Rules: ")

CheckReturned ==
    /\ call.pc = "returned" /\ call.out.kind = "call"
    /\ call.tool = "check-external-dependency-availability"

\* C25: when any List call that check-external-dependency-availability issued
\* failed (the istio-system Service Entry listing included), the envelope is an
\* error and carries no report.
C25_EveryListingMandatory ==
    CheckReturned /\ (\E k \in call.issued : ~call.lists[k].err.isNil) =>
        /\ call.result.IsError
        /\ ~StartsWith(CallText, "External Dependency Check")

\* A List call of the returned invocation was cut short by the caller
\* cancelling the context.
CancelledDuringListing ==
    \/ call.list.err = Canceled
    \/ \E k \in DOMAIN call.lists : call.lists[k].err = Canceled

\* C26: an invocation whose context was cancelled during one of its List calls
\* returns an error envelope whose text carries the cancellation message; it
\* never returns a success envelope.
C26_CancellationSurfaces ==
    call.pc = "returned" /\ CancelledDuringListing =>
        /\ call.result.IsError
        /\ Contains(CallText, Canceled.msg)

\* C23: a tool invoked twice with the same arguments, the backend and the
\* handle unchanged, returns the same envelope both times, byte for byte.
C23_RepeatedInvocationSameContent ==
    call.pc = "repeated" => call.again = call.result

DiscoverReturned ==
    /\ call.pc = "returned" /\ call.tool = "discover-istio-namespaces"
    /\ call.list.err.isNil

\* The number of listed pods of a namespace that are Running and have a
\* container named istio-proxy.
Counted(ns) ==
    Cardinality({k \in DOMAIN call.list.items :
                    /\ call.list.items[k].Namespace = ns
                    /\ call.list.items[k].Phase = "Running"
                    /\ \E c \in DOMAIN call.list.items[k].Containers :
                            call.list.items[k].Containers[c] = "istio-proxy"})

\* The namespaces with a sidecar, and the rank the claim gives each: one more
\* than the number of namespaces with a greater count, or the same count and a
\* smaller name.
Listed == {ns \in {NamespaceOrder[k] : k \in DOMAIN NamespaceOrder} : Counted(ns) > 0}
RankOf(ns) ==
    1 + Cardinality({m \in Listed :
                        \/ Counted(m) > Counted(ns)
                        \/ Counted(m) = Counted(ns) /\ NameLess(m, ns)})

\* The start of a namespace's row: rank, name and count columns.
RowStart(ns) ==
    PadLeft(ToString(RankOf(ns)), 4) \o " | " \o PadRight(ns, 9) \o " | "
        \o PadLeft(ToString(Counted(ns)), 13) \o " | "

LineCount(text) == Cardinality({k \in 1..Len(text) : SubSeq(text, k, k) = "\n"})

\* C30: discover-istio-namespaces counts each Running pod with an istio-proxy
\* container once for its namespace; the rows of the table are the namespaces
\* with a non-zero count, ranked 1..n by count descending and then by name
\* ascending, each row following the row of the rank before it; with no such
\* namespace the content is "No namespaces with Istio sidecars found", as a
\* success.
C30_DiscoverRanksNamespaces ==
    DiscoverReturned =>
        /\ ~call.result.IsError
        /\ IF Listed = {}
            THEN CallText = "No namespaces with Istio sidecars found"
            ELSE /\ StartsWith(CallText, "Found " \o ToString(Cardinality(Listed))
                                            \o " namespaces with Istio sidecars:\n\n")
                 /\ LineCount(CallText) = Cardinality(Listed) + 5
                 /\ {RankOf(ns) : ns \in Listed} = 1..Cardinality(Listed)
                 /\ \A ns \in Listed :
                        /\ RankOf(ns) = 1 => Contains(CallText, "-\n" \o RowStart(ns))
                        /\ \A m \in Listed :
                                RankOf(m) = RankOf(ns) + 1 =>
                                    Contains(CallText, RowStart(ns) \o Recommendation(RankOf(ns) - 1)
                                                        \o "\n" \o RowStart(m))
                        /\ RankOf(ns) = Cardinality(Listed) =>
                                Contains(CallText, RowStart(ns) \o Recommendation(RankOf(ns) - 1)
                                                    \o "\n\n")

\* C30 witness: beta has two sidecars, alpha and gamma one each and a pod of
\* alpha that is not running is skipped; beta is ranked first, then alpha, then
\* gamma.
C30_Witness ==
    /\ DiscoverReturned
    /\ \E k \in DOMAIN call.list.items : call.list.items[k].Phase = "Pending"
    /\ Contains(CallText, "   1 | beta      |             2 | BEST - Most Istio-injected workloads\n"
                            \o "   2 | alpha     |             1 | Good - High Istio adoption\n"
                            \o "   3 | gamma     |             1 | Good - High Istio adoption\n\n")

\* The server came up without a watch: fsnotify.NewWatcher failed, or there
\* was no kubeconfig file to watch.
StartedWithoutWatch ==
    /\ mainPc \in {"running", "closed"}
    /\ watchErr \/ watchers = <<>>

\* C27: when the watcher cannot be created or there is no file to watch,
\* NewServer has succeeded all the same, with the handle it built and no
\* watch attached to it; from then on no reload happens, the handle and the
\* catalog stay the ones of startup, every query goes through that handle and
\* Close finds nothing to close.
C27_NoWatchKeepsServing ==
    /\ watchErr => mainPc \in {"running", "closed"}
    /\ StartedWithoutWatch =>
        /\ watchers = <<>>
        /\ s_i = 1 /\ handles = <<NewHandle(kubeconfig)>>
        /\ handles[s_i].closeWatch = 0
        /\ catalog = SetTools(1)
        /\ reloadCalls = 0 /\ logged = 0
        /\ inv.used \subseteq {s_i}

\* C27 witness: the watcher could not be created, a kubeconfig file then
\* changed and the server was closed.
C27_Witness ==
    /\ watchErr /\ mainPc = "closed" /\ changes > 0 /\ reloadCalls = 0

\* C28: while the server runs, the watcher installed at startup stays open and
\* its goroutine stays in its loop whatever earlier reloads did, and a pending
\* event lets it start a reload; every event taken is one reload attempt, and
\* an attempt that finds a valid configuration builds a new handle to install.
C28_EveryEventReloads ==
    /\ [](mainPc = "running" /\ watchers # <<>> =>
            /\ ~watchers[1].closed /\ watchers[1].pc # "exited"
            /\ watchers[1].pc = "wait" /\ watchers[1].events > 0 =>
                    ENABLED (WatcherReloadOk(1) \/ WatcherReloadFail(1)))
    /\ [][\A w \in DOMAIN watchers :
            watchers'[w].events < watchers[w].events /\ mainPc' = "running" =>
                /\ watchers'[w].events = watchers[w].events - 1
                /\ reloadCalls' = reloadCalls + 1
                /\ NewIstioOk(kubeconfig) =>
                        /\ handles' = Append(handles, NewHandle(kubeconfig))
                        /\ watchers'[w].pc = "assign" /\ watchers'[w].newH = Len(handles')
                /\ ~NewIstioOk(kubeconfig) => watchers'[w].pc = "wait" /\ s_i' = s_i]_vars
    /\ [][\A w \in DOMAIN watchers :
            watchers[w].pc = "assign" /\ watchers'[w].pc # "assign" => s_i' = watchers[w].newH]_vars

\* C28 witness: a reload failed and was logged, and a later change with a
\* valid configuration installed a new handle and its catalog.
C28_Witness ==
    /\ mainPc = "running" /\ logged >= 1 /\ reloadCalls >= 2
    /\ s_i = 2 /\ catalog.builtFor = 2 /\ NewIstioOk(kubeconfig)
    /\ ~watchers[1].closed /\ watchers[1].pc = "wait"

\* C29: at most one reloadIstioClient is between its NewIstio and the end of
\* its SetTools at any time, and none is started while one is in progress.
C29_ReloadsSerialized ==
    /\ [](Cardinality({w \in DOMAIN watchers : watchers[w].pc \in {"assign", "setTools"}}) <= 1)
    /\ [](mainPc = "new" => ~ReloadInProgress)
    /\ [][reloadCalls' # reloadCalls => ~ReloadInProgress]_vars

\* C29 witness: a burst: a reload is in progress while another event is
\* already waiting.
C29_Witness ==
    \E w \in DOMAIN watchers : watchers[w].pc = "assign" /\ watchers[w].events > 0

====
